---- MODULE Spec2Model ----
(***************************************************************************)
(* A model of SigMF.ts: the sample codec (samples.ts), the chunked sample  *)
(* reader (streamSamples), the metadata model and validator (metadata.ts)  *)
(* and the archive layer (archive.ts).                                     *)
(*                                                                         *)
(* JavaScript numbers that hold integers are modelled as "wide" integers   *)
(* [hi, lo] standing for hi * 65536 + lo with lo \in 0..65535, so that     *)
(* 32-bit components (up to 2^32 - 1) and out-of-range inputs are kept     *)
(* exactly.  Byte buffers are sequences of 0..255; JavaScript's 0-based    *)
(* offsets are kept and shifted by one only where a sequence is indexed.   *)
(***************************************************************************)
EXTENDS Integers, Sequences, FiniteSets, TLC

VARIABLES
    \* ---- sample codec (readSamples / writeSamples) ----
    cPc,        \* position of the codec scenario: "init", "read", "written", "readback"
    cTok,       \* datatype token given to the codec
    cBuf,       \* input buffer of readSamples
    cOpt,       \* ReadSamplesOptions {offset, count}
    cX,         \* sample array given to writeSamples
    cRead,      \* result of readSamples(cBuf, cTok, cOpt)
    cWritten,   \* result of writeSamples(cX, cTok)
    cRound,     \* result of readSamples(writeSamples(cX, cTok), cTok)
    \* ---- chunked sample reader (streamSamples) ----
    sPc,        \* position of the generator: "idle", "start", "awaitRead", "yielded",
                \* "yieldedLast", "done", "returned", "thrown"
    sSrc,       \* bytes of the source Blob
    sTok,       \* datatype token
    sChunkSamples, \* chunkSamples argument
    sPos,       \* number of source bytes the stream has delivered so far
    sBuffer,    \* the generator's buffer
    sDone,      \* the generator's done flag
    sReader,    \* the source's reader: "none", "held", "released"
    sChunks,    \* the SampleData chunks yielded so far, in yield order
    \* ---- readSamplesFromBlob ----
    bPc,        \* position of the call: "idle", "start", "awaitRead", "returned", "thrown"
    bSource,    \* the source Blob: [size, seed]; its byte i is BlobByte(seed, i)
    bTok,       \* datatype token
    bOpt,       \* ReadSamplesOptions {offset, count}
    bDelivered, \* bytes of the sliced stream delivered so far
    bPartial,   \* partialBuffer: bytes of a sample split by a read boundary
    bSamplesRead, \* samplesRead
    bBytesRead, \* bytesRead
    bRuns,      \* the result array, as the runs of samples each read decoded
    bReader,    \* the stream's reader: "none", "held", "released"
    bProgress,  \* the onProgress calls so far: <<bytesRead, totalBytes>>
    bResult,    \* the SampleData returned (values filled on the direct path)
    \* ---- SigMFRecording ----
    heap,       \* the objects and arrays of the metadata model, by address
    rPc,        \* "none" before the recording is made, then "live"
    rGlobal,    \* recording.global
    rCaptures,  \* recording.captures
    rAnnotations, \* recording.annotations
    rSnapshot,  \* the document the last toMetadata() returned, or undefined
    rResult,    \* what the last call returned, when it was validate()
    rThrown,    \* whether the last call on the recording threw
    rCalls,     \* the number of calls and assignments made so far
    \* ---- archives ----
    aPc,        \* the archive: "none", "whole", "truncated", "overwritten"; "given",
                \* "prefixed" (written by another tool); "drawn", "built"
    aInput,     \* the arguments createArchive was given: [recordings, archiveName]
    aBlob,      \* the bytes of the archive handed to the reader
    aRead,      \* what readArchive returned: [called, threw, entries]
    aStreamPc,  \* the streamArchive generator: "idle", "yielded", "done", "thrown"
    aPending,   \* entries streamArchive has still to yield
    aYielded,   \* entries streamArchive has yielded, in order
    \* ---- parseDatatype ----
    pPc,        \* "idle", "drawn" (a token is given), "parsed"
    pTok,       \* the datatype token given to parseDatatype
    pInfo,      \* what parseDatatype returned: the DatatypeInfo, or threw
    \* ---- fromJSON ----
    lPc,        \* "idle", "given" (a document is given), "loaded"
    lInput,     \* the document given to fromJSON
    lResult,    \* what fromJSON returned: the recording's fields, or the error
    \* ---- extension registry ----
    extensionRegistry,  \* the Map of registered definitions: <<name, definition>> pairs
    \* ---- parseTar, header by header ----
    tPc,        \* "none", "loop" (in the while loop), "done" (returned)
    tView,      \* the bytes parsed
    tOffset,    \* the read cursor
    tEntries,   \* the entries pushed so far
    \* ---- writeSamplesComplex ----
    wPc,        \* "idle", "given" (arguments are given), "written"
    wTok,       \* the datatype token given
    wPairs,     \* the {i, q} samples given
    wWritten    \* what writeSamplesComplex returned: [threw, error, bytes]

codecVars == <<cPc, cTok, cBuf, cOpt, cX, cRead, cWritten, cRound>>
streamVars == <<sPc, sSrc, sTok, sChunkSamples, sPos, sBuffer, sDone, sReader, sChunks>>

blobVars == <<bPc, bSource, bTok, bOpt, bDelivered, bPartial, bSamplesRead, bBytesRead,
              bRuns, bReader, bProgress, bResult>>

recVars ==
    <<heap, rPc, rGlobal, rCaptures, rAnnotations, rSnapshot, rResult, rThrown, rCalls>>

arcVars == <<aPc, aInput, aBlob, aRead, aStreamPc, aPending, aYielded>>

parseVars == <<pPc, pTok, pInfo>>

loadVars == <<lPc, lInput, lResult>>

regVars == <<extensionRegistry>>

tarVars == <<tPc, tView, tOffset, tEntries>>

pairVars == <<wPc, wTok, wPairs, wWritten>>

vars == <<codecVars, streamVars, blobVars, recVars, arcVars, parseVars, loadVars,
         regVars, tarVars, pairVars>>

\* what the actions of one component leave alone
notCodec ==
    <<streamVars, blobVars, recVars, arcVars, parseVars, loadVars,
      regVars, tarVars, pairVars>>
notStream ==
    <<codecVars, blobVars, recVars, arcVars, parseVars, loadVars,
      regVars, tarVars, pairVars>>
notBlob ==
    <<codecVars, streamVars, recVars, arcVars, parseVars, loadVars,
      regVars, tarVars, pairVars>>
notRec ==
    <<codecVars, streamVars, blobVars, arcVars, parseVars, loadVars,
      regVars, tarVars, pairVars>>
notArc ==
    <<codecVars, streamVars, blobVars, recVars, parseVars, loadVars,
      regVars, tarVars, pairVars>>
notParse ==
    <<codecVars, streamVars, blobVars, recVars, arcVars, loadVars,
      regVars, tarVars, pairVars>>
notLoad ==
    <<codecVars, streamVars, blobVars, recVars, arcVars, parseVars,
      regVars, tarVars, pairVars>>
notReg ==
    <<codecVars, streamVars, blobVars, recVars, arcVars, parseVars, loadVars,
      tarVars, pairVars>>
notTar ==
    <<codecVars, streamVars, blobVars, recVars, arcVars, parseVars, loadVars,
      regVars, pairVars>>
notPair ==
    <<codecVars, streamVars, blobVars, recVars, arcVars, parseVars, loadVars,
      regVars, tarVars>>

----------------------------------------------------------------------------
(* Bounds of the model *)

MaxBufLen == 4          \* longest input buffer of readSamples, in bytes
MaxOffset == 3          \* largest sample offset given to readSamples
MaxCount == 2           \* largest count given to readSamples
MaxSamplesLen == 2      \* longest sample array given to writeSamples
MaxSrcLen == 5          \* longest source of streamSamples, in bytes
MaxChunkSamples == 3    \* largest chunkSamples given to streamSamples
MaxBlobLen == 4         \* longest small Blob given to readSamplesFromBlob, in bytes
MaxBlobExtra == 5       \* a large Blob has up to this many bytes above the threshold
MaxBlobOffset == 2      \* largest sample offset given to readSamplesFromBlob
MaxBlobCount == 2       \* largest count given to readSamplesFromBlob
ReadSize == 20971520    \* length of the reads a large Blob's stream delivers
MaxCalls == 4           \* most calls and assignments made on one recording

\* byte values the inputs are drawn from (sign bit clear, sign bit set, all ones)
ByteVals == {1, 128, 255}
\* byte values of streamed sources
StreamByteVals == {1, 255}

----------------------------------------------------------------------------
(* Wide integers *)

Num(hi, lo) == [hi |-> hi, lo |-> lo]

\* the wide integer of a small integer v, -65536 < v < 65536
NumOf(v) == IF v < 0 THEN Num(-1, v + 65536) ELSE Num(0, v)

RECURSIVE SeqsUpTo(_, _)
\* all sequences over S of length 0..n
SeqsUpTo(S, n) ==
    IF n = 0 THEN {<<>>}
    ELSE LET shorter == SeqsUpTo(S, n - 1)
         IN shorter \cup {Append(s, x) : s \in {t \in shorter : Len(t) = n - 1}, x \in S}

\* Uint8Array.prototype.slice(from, to) / subarray with 0-based, clamped indices
Slice(s, from, to) ==
    LET f == IF from > Len(s) THEN Len(s) ELSE from
        t == IF to > Len(s) THEN Len(s) ELSE to
    IN IF t <= f THEN <<>> ELSE SubSeq(s, f + 1, t)

\* a minimum that always takes its first argument
MinTakesFirst(a, b) == a

Min(a, b) == IF a < b THEN a ELSE b

----------------------------------------------------------------------------
(* Datatype tokens and parseDatatype *)

\* A token is the triple of the substrings the three groups of
\* DATATYPE_PATTERN would have to match; en = "" is an absent suffix.
Token(cr, ty, en) == [cr |-> cr, ty |-> ty, en |-> en]

TokenText(tok) == <<tok.cr, tok.ty, tok.en>>

\* a pattern that takes no endianness suffix
DatatypePatternWithoutSuffix(tok) ==
    /\ tok.cr \in {"c", "r"}
    /\ tok.ty \in {"f32", "f64", "i32", "i16", "u32", "u16", "i8", "u8"}
    /\ tok.en = ""

DATATYPE_PATTERN(tok) ==
    /\ tok.cr \in {"c", "r"}
    /\ tok.ty \in {"f32", "f64", "i32", "i16", "u32", "u16", "i8", "u8"}
    /\ tok.en \in {"", "_le", "_be"}

\* parseInt(typeStr.slice(1), 10)
BitsOf(ty) ==
    CASE ty \in {"i8", "u8"} -> 8
      [] ty \in {"i16", "u16"} -> 16
      [] ty \in {"f32", "i32", "u32"} -> 32
      [] ty \in {"f64"} -> 64
      [] OTHER -> 0

NoInfo ==
    [threw |-> TRUE, isComplex |-> FALSE, format |-> "none", signed |-> FALSE,
     bitsPerComponent |-> 0, bytesPerComponent |-> 0, bytesPerSample |-> 0,
     littleEndian |-> "undefined", datatype |-> <<>>]

parseDatatype(tok) ==
    IF ~DATATYPE_PATTERN(tok) THEN NoInfo
    ELSE LET isComplex == tok.cr = "c"
             isF == tok.ty \in {"f32", "f64"}
             isI == tok.ty \in {"i32", "i16", "i8"}
             bitsPerComponent == BitsOf(tok.ty)
             bytesPerComponent == bitsPerComponent \div 8
         IN [threw |-> FALSE,
             isComplex |-> isComplex,
             format |-> IF isF THEN "float" ELSE "int",
             signed |-> isF \/ isI,
             bitsPerComponent |-> bitsPerComponent,
             bytesPerComponent |-> bytesPerComponent,
             bytesPerSample |-> IF isComplex THEN bytesPerComponent * 2
                                ELSE bytesPerComponent,
             littleEndian |-> IF bitsPerComponent > 8
                              THEN (IF tok.en = "_le" THEN "true" ELSE "false")
                              ELSE "undefined",
             datatype |-> TokenText(tok)]

----------------------------------------------------------------------------
(* readValue / writeValue: DataView accessors *)

\* the n bytes at 0-based offset, most significant first
BytesBE(view, offset, n, le) ==
    [i \in 1..n |-> IF le THEN view[offset + n - i + 1] ELSE view[offset + i]]

\* info.littleEndian ?? true
LittleEndianOrDefault(info) == info.littleEndian # "false"

readValue(view, offset, info) ==
    LET le == LittleEndianOrDefault(info)
        b == BytesBE(view, offset, info.bytesPerComponent, le)
    IN CASE info.format = "float" ->
              \* getFloat32 / getFloat64: the IEEE-754 bit pattern, kept as is
              [float |-> info.bitsPerComponent, bits |-> b]
         [] info.format = "int" /\ info.bitsPerComponent = 8 ->
              IF info.signed /\ b[1] >= 128 THEN NumOf(b[1] - 256) ELSE NumOf(b[1])
         [] info.format = "int" /\ info.bitsPerComponent = 16 ->
              LET u == b[1] * 256 + b[2]
              IN IF info.signed /\ u >= 32768 THEN NumOf(u - 65536) ELSE NumOf(u)
         [] info.format = "int" /\ info.bitsPerComponent = 32 ->
              LET h == b[1] * 256 + b[2]
                  l == b[3] * 256 + b[4]
              IN IF info.signed /\ h >= 32768 THEN Num(h - 65536, l) ELSE Num(h, l)

\* the bytes DataView.setXxx stores for value, most significant first:
\* integers are taken modulo 2^bits (ToInt8 .. ToUint32)
ComponentBytes(value, info) ==
    CASE info.format = "float" -> value.bits
      [] info.format = "int" /\ info.bitsPerComponent = 8 -> <<value.lo % 256>>
      [] info.format = "int" /\ info.bitsPerComponent = 16 ->
              <<value.lo \div 256, value.lo % 256>>
      [] info.format = "int" /\ info.bitsPerComponent = 32 ->
              LET h == value.hi % 65536
              IN <<h \div 256, h % 256, value.lo \div 256, value.lo % 256>>

\* a writeValue that drops the byte order argument (always big-endian)
writeValueBigEndianOnly(view, offset, value, info) ==
    LET n == info.bytesPerComponent
        b == ComponentBytes(value, info)
    IN [i \in 1..Len(view) |->
          IF i > offset /\ i <= offset + n THEN b[i - offset] ELSE view[i]]

writeValue(view, offset, value, info) ==
    LET le == LittleEndianOrDefault(info)
        n == info.bytesPerComponent
        b == ComponentBytes(value, info)
    IN [i \in 1..Len(view) |->
          IF i > offset /\ i <= offset + n
          THEN (IF le THEN b[n - (i - offset) + 1] ELSE b[i - offset])
          ELSE view[i]]

----------------------------------------------------------------------------
(* readSamples / writeSamples *)

Threw == [threw |-> TRUE, isComplex |-> FALSE, values |-> <<>>, sampleCount |-> 0]

\* no call made yet
NoResult == [threw |-> FALSE, isComplex |-> FALSE, values |-> <<>>, sampleCount |-> -1]

\* options.count: absent, or a number
NoCount == [given |-> FALSE, n |-> 0]
Count(n) == [given |-> TRUE, n |-> n]
Options(offset, count) == [offset |-> offset, count |-> count]
DefaultOptions == Options(0, NoCount)

readSamples(buffer, tok, options) ==
    LET info == parseDatatype(tok)
    IN IF info.threw THEN Threw
       ELSE
       LET byteOffset == options.offset * info.bytesPerSample
           availableBytes == Len(buffer) - byteOffset
           maxSamples == availableBytes \div info.bytesPerSample     \* Math.floor
           sampleCount == IF options.count.given
                          THEN Min(options.count.n, maxSamples) ELSE maxSamples
           viewLength == sampleCount * info.bytesPerSample
       IN \* new DataView(buffer, byteOffset, length) raises a RangeError when the
          \* offset lies beyond the buffer, or the length is negative or too long
          IF \/ byteOffset > Len(buffer)
             \/ viewLength < 0
             \/ byteOffset + viewLength > Len(buffer)
          THEN Threw
          ELSE
          LET view == Slice(buffer, byteOffset, byteOffset + viewLength)
              n == IF info.isComplex THEN sampleCount * 2 ELSE sampleCount
          IN [threw |-> FALSE,
              isComplex |-> info.isComplex,
              values |-> [j \in 1..n |->
                            IF info.isComplex
                            THEN readValue(view,
                                    ((j - 1) \div 2) * info.bytesPerSample
                                      + ((j - 1) % 2) * info.bytesPerComponent, info)
                            ELSE readValue(view, (j - 1) * info.bytesPerSample, info)],
              sampleCount |-> sampleCount]

RECURSIVE WriteAll(_, _, _, _)
\* the write loop of writeSamples: component j of samples goes to byte
\* offset (j - 1) * bytesPerComponent
WriteAll(view, samples, j, info) ==
    IF j > Len(samples) THEN view
    ELSE WriteAll(writeValue(view, (j - 1) * info.bytesPerComponent, samples[j], info),
                  samples, j + 1, info)

NoBytes == [threw |-> TRUE, bytes |-> <<>>]

writeSamples(samples, tok) ==
    LET info == parseDatatype(tok)
    IN IF info.threw THEN NoBytes
       ELSE
       IF info.isComplex /\ Len(samples) % 2 = 1
       THEN \* samples.length / 2 is fractional: the Q write of the last, partial
            \* sample lands at the end of the buffer and DataView raises a RangeError
            NoBytes
       ELSE
       LET sampleCount == IF info.isComplex THEN Len(samples) \div 2 ELSE Len(samples)
           buffer == [i \in 1..(sampleCount * info.bytesPerSample) |-> 0]
       IN [threw |-> FALSE, bytes |-> WriteAll(buffer, samples, 1, info)]

RECURSIVE WritePairsSwapped(_, _, _, _)
\* a write loop that puts q before i
WritePairsSwapped(view, samples, k, info) ==
    IF k > Len(samples) THEN view
    ELSE LET offset == (k - 1) * info.bytesPerSample
         IN WritePairsSwapped(writeValue(writeValue(view, offset, samples[k].q, info),
                                         offset + info.bytesPerComponent, samples[k].i, info),
                              samples, k + 1, info)

RECURSIVE WritePairs(_, _, _, _)
\* the write loop of writeSamplesComplex: samples[k].i, then samples[k].q
WritePairs(view, samples, k, info) ==
    IF k > Len(samples) THEN view
    ELSE LET offset == (k - 1) * info.bytesPerSample
         IN WritePairs(writeValue(writeValue(view, offset, samples[k].i, info),
                                  offset + info.bytesPerComponent, samples[k].q, info),
                       samples, k + 1, info)

\* writeSamplesComplex(samples, datatype): [called, threw, error, bytes]
writeSamplesComplex(samples, tok) ==
    LET info == parseDatatype(tok)
        failed(error) == [called |-> TRUE, threw |-> TRUE, error |-> error, bytes |-> <<>>]
    IN IF info.threw THEN failed("Invalid datatype")
       ELSE IF ~info.isComplex
       THEN failed("writeSamplesComplex requires a complex datatype")
       ELSE LET buffer == [i \in 1..(Len(samples) * info.bytesPerSample) |-> 0]
            IN [called |-> TRUE, threw |-> FALSE, error |-> "",
                bytes |-> WritePairs(buffer, samples, 1, info)]

----------------------------------------------------------------------------
(* streamSamples: an async generator over the source's stream.            *)
(* The generator runs without interruption between two suspension points: *)
(* an await of reader.read() and a yield.                                 *)

\* a concatenation that puts the new bytes in front of the buffered ones
ConcatReadInFront(buffer, value) == value \o buffer

\* newBuffer.set(buffer); newBuffer.set(result.value, buffer.length)
ConcatRead(buffer, value) == buffer \o value

\* buffer.slice(0, completeBytes).buffer: the bytes decoded into the chunk
ChunkBuffer(buffer, completeBytes) == Slice(buffer, 0, completeBytes)

\* a remainder that forgets the bytes of a partial sample
RemainderDropped(buffer, completeBytes) == <<>>

\* buffer.slice(completeBytes): the remainder kept for the next iteration
Remainder(buffer, completeBytes) == Slice(buffer, completeBytes, Len(buffer))

\* a release that runs on normal completion only (no try/finally)
ReleaseOnCompletionOnly(exit) == IF exit = "done" THEN "released" ELSE "held"

\* the finally block: reader.releaseLock() on every exit (exit is "done",
\* "returned" or "thrown")
Finally(exit) == "released"

CompleteBytes(buffer, info) == (Len(buffer) \div info.bytesPerSample) * info.bytesPerSample

\* where the generator suspends or ends next
Suspend(pc) == [pc |-> pc]

\* after the outer loop: yield once more if a whole sample is left, else end
PostLoop(buffer, info) ==
    IF Len(buffer) >= info.bytesPerSample THEN Suspend("yieldedLast") ELSE Suspend("done")

\* the body of the outer loop from the exit of the inner read loop
AfterInner(buffer, done, info) ==
    IF Len(buffer) = 0 THEN PostLoop(buffer, info)                    \* break
    ELSE IF Len(buffer) \div info.bytesPerSample > 0 THEN Suspend("yielded")
    ELSE IF done THEN PostLoop(buffer, info)                          \* while (!done) ends
    ELSE Suspend("spin")   \* a buffer of chunkBytes holds a whole sample: not reached

\* the head of the inner loop: while (buffer.length < chunkBytes && !done)
InnerLoop(buffer, done, chunkBytes, info) ==
    IF Len(buffer) < chunkBytes /\ ~done THEN Suspend("awaitRead")
    ELSE AfterInner(buffer, done, info)

\* the head of the outer loop: while (!done)
OuterLoop(buffer, done, chunkBytes, info) ==
    IF done THEN PostLoop(buffer, info) ELSE InnerLoop(buffer, done, chunkBytes, info)

ChunkBytesOf(chunkSamples, info) == chunkSamples * info.bytesPerSample

\* the generator moves to position to with the given buffer and done flag:
\* a yield appends the decoded chunk, an end runs the finally block
MoveTo(to, buffer, done) ==
    LET info == parseDatatype(sTok)
    IN /\ sPc' = to.pc
       /\ sBuffer' = buffer
       /\ sDone' = done
       /\ sChunks' = IF to.pc \in {"yielded", "yieldedLast"}
                     THEN Append(sChunks,
                            readSamples(ChunkBuffer(buffer, CompleteBytes(buffer, info)),
                                        sTok, DefaultOptions))
                     ELSE sChunks
       /\ sReader' = IF to.pc \in {"done", "returned", "thrown"} THEN Finally(to.pc)
                     ELSE "held"

StreamTokens ==
    {Token("r", "u8", ""), Token("c", "i8", ""), Token("r", "i16", "_le"),
     Token("r", "u16", "_be"), Token("c", "u16", "_le")}

StreamIdle ==
    /\ sPc = "idle"
    /\ sSrc = <<>>
    /\ sTok = Token("r", "u8", "")
    /\ sChunkSamples = 1
    /\ sPos = 0
    /\ sBuffer = <<>>
    /\ sDone = FALSE
    /\ sReader = "none"
    /\ sChunks = <<>>

StreamInit ==
    /\ sPc = "start"
    /\ sSrc \in SeqsUpTo(StreamByteVals, MaxSrcLen)
    /\ sTok \in StreamTokens
    /\ sChunkSamples \in 1..MaxChunkSamples
    /\ sPos = 0
    /\ sBuffer = <<>>
    /\ sDone = FALSE
    /\ sReader = "none"
    /\ sChunks = <<>>

\* the consumer's first next(): parseDatatype, source.stream().getReader(),
\* then the loops up to the first await
StreamStart ==
    /\ sPc = "start"
    /\ LET info == parseDatatype(sTok)
       IN MoveTo(OuterLoop(<<>>, FALSE, ChunkBytesOf(sChunkSamples, info), info), <<>>, FALSE)
    /\ UNCHANGED <<sSrc, sTok, sChunkSamples, sPos, notStream>>

\* reader.read() resolves with the next n bytes of the source
ReadValue ==
    /\ sPc = "awaitRead"
    /\ \E n \in 1..(Len(sSrc) - sPos) :
         LET info == parseDatatype(sTok)
             value == Slice(sSrc, sPos, sPos + n)
             buffer == ConcatRead(sBuffer, value)
         IN /\ sPos' = sPos + n
            /\ MoveTo(InnerLoop(buffer, FALSE, ChunkBytesOf(sChunkSamples, info), info),
                      buffer, FALSE)
    /\ UNCHANGED <<sSrc, sTok, sChunkSamples, notStream>>

\* reader.read() resolves with done: true at the end of the source
ReadDone ==
    /\ sPc = "awaitRead"
    /\ sPos = Len(sSrc)
    /\ MoveTo(AfterInner(sBuffer, TRUE, parseDatatype(sTok)), sBuffer, TRUE)
    /\ UNCHANGED <<sSrc, sTok, sChunkSamples, sPos, notStream>>

\* reader.read() rejects: the error leaves the generator through finally
ReadError ==
    /\ sPc = "awaitRead"
    /\ MoveTo(Suspend("thrown"), sBuffer, sDone)
    /\ UNCHANGED <<sSrc, sTok, sChunkSamples, sPos, notStream>>

\* the consumer pulls the next chunk: the generator resumes after its yield
ConsumerNext ==
    /\ sPc \in {"yielded", "yieldedLast"}
    /\ LET info == parseDatatype(sTok)
           buffer == Remainder(sBuffer, CompleteBytes(sBuffer, info))
       IN IF sPc = "yielded"
          THEN MoveTo(OuterLoop(buffer, sDone, ChunkBytesOf(sChunkSamples, info), info),
                      buffer, sDone)
          ELSE MoveTo(Suspend("done"), sBuffer, sDone)
    /\ UNCHANGED <<sSrc, sTok, sChunkSamples, sPos, notStream>>

\* the consumer stops early (break out of for await calls return()): the
\* generator ends at its yield through finally
ConsumerReturn ==
    /\ sPc \in {"yielded", "yieldedLast"}
    /\ MoveTo(Suspend("returned"), sBuffer, sDone)
    /\ UNCHANGED <<sSrc, sTok, sChunkSamples, sPos, notStream>>

StreamNext ==
    \/ StreamStart
    \/ ReadValue
    \/ ReadDone
    \/ ReadError
    \/ ConsumerNext
    \/ ConsumerReturn

----------------------------------------------------------------------------
(* readSamplesFromBlob: the direct path below the size threshold, the      *)
(* streaming path at or above it.  A Blob is [size, seed] and its bytes    *)
(* are a fixed pattern of the position, so that a Blob of 50 MB is a small *)
(* value; the result array of the streaming path is kept as the runs of    *)
(* samples written by each read.                                           *)

BlobByte(seed, i) == ((i % 251) * 7 + seed) % 256

\* the bytes source.slice(from, to) holds
BlobSlice(source, from, to) ==
    LET f == IF from > source.size THEN source.size ELSE from
        t == IF to > source.size THEN source.size ELSE to
    IN IF t <= f THEN <<>> ELSE [i \in 1..(t - f) |-> BlobByte(source.seed, f + i - 1)]

\* "For small files (< 50MB), read directly"
StreamThreshold == 50 * 1024 * 1024

\* the sizes computed at the head of readSamplesFromBlob
BlobPlan(source, tok, options) ==
    LET info == parseDatatype(tok)
        byteOffset == options.offset * info.bytesPerSample
        totalBytes == source.size - byteOffset
        maxSamples == totalBytes \div info.bytesPerSample
        sampleCount == IF options.count.given
                       THEN Min(options.count.n, maxSamples) ELSE maxSamples
    IN [byteOffset |-> byteOffset, sampleCount |-> sampleCount,
        bytesToRead |-> sampleCount * info.bytesPerSample]

\* onProgress?.(bytesRead, totalBytes)
OnProgress(calls, bytesRead, totalBytes) == Append(calls, <<bytesRead, totalBytes>>)

\* the finally block of the streaming path: reader.releaseLock()
BlobFinally(exit) == "released"

BlobTokens == {Token("r", "u8", ""), Token("r", "i16", "_le"), Token("c", "i16", "_be")}

BlobIdle ==
    /\ bPc = "idle"
    /\ bSource = [size |-> 0, seed |-> 0]
    /\ bTok = Token("r", "u8", "")
    /\ bOpt = DefaultOptions
    /\ bDelivered = 0
    /\ bPartial = <<>>
    /\ bSamplesRead = 0
    /\ bBytesRead = 0
    /\ bRuns = <<>>
    /\ bReader = "none"
    /\ bProgress = <<>>
    /\ bResult = NoResult

BlobInit ==
    /\ bPc = "start"
    /\ bSource \in [size : (0..MaxBlobLen)
                           \cup {StreamThreshold + d : d \in 0..MaxBlobExtra},
                    seed : {1, 130}]
    /\ bTok \in BlobTokens
    /\ bOpt \in {Options(o, c) : o \in 0..MaxBlobOffset,
                                 c \in {NoCount} \cup {Count(n) : n \in 0..MaxBlobCount}}
    \* the window is a few bytes (direct path) or reaches the threshold
    \* (streaming path): a direct read of just under 50 MB is not drawn
    /\ LET plan == BlobPlan(bSource, bTok, bOpt)
       IN plan.bytesToRead <= MaxBlobLen \/ plan.bytesToRead >= StreamThreshold
    /\ bDelivered = 0
    /\ bPartial = <<>>
    /\ bSamplesRead = 0
    /\ bBytesRead = 0
    /\ bRuns = <<>>
    /\ bReader = "none"
    /\ bProgress = <<>>
    /\ bResult = NoResult

\* the direct path: the window is below the threshold and is read at once
BlobDirect ==
    /\ bPc = "start"
    /\ BlobPlan(bSource, bTok, bOpt).bytesToRead < StreamThreshold
    /\ LET plan == BlobPlan(bSource, bTok, bOpt)
           buffer == BlobSlice(bSource, plan.byteOffset, plan.byteOffset + plan.bytesToRead)
           result == readSamples(buffer, bTok, Options(0, Count(plan.sampleCount)))
       IN /\ bProgress' = OnProgress(bProgress, plan.bytesToRead, plan.bytesToRead)
          /\ bResult' = result
          /\ bPc' = IF result.threw THEN "thrown" ELSE "returned"
    /\ UNCHANGED <<bSource, bTok, bOpt, bDelivered, bPartial, bSamplesRead, bBytesRead,
                   bRuns, bReader, notBlob>>

\* the streaming path up to its first await: stream.getReader()
BlobOpenStream ==
    /\ bPc = "start"
    /\ BlobPlan(bSource, bTok, bOpt).bytesToRead >= StreamThreshold
    /\ bReader' = "held"
    /\ bPc' = "awaitRead"
    /\ UNCHANGED <<bSource, bTok, bOpt, bDelivered, bPartial, bSamplesRead, bBytesRead,
                   bRuns, bProgress, bResult, notBlob>>

\* the SampleData the streaming path returns
StreamedResult(samplesRead) ==
    [threw |-> FALSE, isComplex |-> parseDatatype(bTok).isComplex, values |-> <<>>,
     sampleCount |-> samplesRead]

\* a read step that forgets the partial sample at the end of a chunk
BlobReadDroppingPartial ==
    /\ bPc = "awaitRead"
    /\ LET plan == BlobPlan(bSource, bTok, bOpt)
           info == parseDatatype(bTok)
           left == plan.bytesToRead - bDelivered
       IN IF left = 0
          THEN \* if (done) break
               /\ bPc' = "returned"
               /\ bReader' = BlobFinally("returned")
               /\ bResult' = StreamedResult(bSamplesRead)
               /\ UNCHANGED <<bDelivered, bPartial, bSamplesRead, bBytesRead, bRuns,
                              bProgress>>
          ELSE \E n \in {Min(ReadSize, left), Min(ReadSize + 1, left), left} :
               LET chunkLength == Len(bPartial) + n
                   completeSamples == chunkLength \div info.bytesPerSample
                   completeBytes == completeSamples * info.bytesPerSample
                   start == plan.byteOffset + bDelivered
                   decoded == Min(completeSamples, plan.sampleCount - bSamplesRead)
                   \* chunk.slice(completeBytes): the tail lies in the bytes just read
                   tail == [i \in 1..(chunkLength - completeBytes) |->
                              LET at == completeBytes + i - 1
                              IN IF at < Len(bPartial) THEN bPartial[at + 1]
                                 ELSE BlobByte(bSource.seed, start + at - Len(bPartial))]
               IN /\ bDelivered' = bDelivered + n
                  /\ bPartial' = <<>>
                  /\ bRuns' = Append(bRuns, [first |-> bSamplesRead, count |-> decoded,
                                             partial |-> bPartial, start |-> start])
                  /\ bSamplesRead' = bSamplesRead + decoded
                  /\ bBytesRead' = bBytesRead + n
                  /\ bProgress' = OnProgress(bProgress, bBytesRead + n, plan.bytesToRead)
                  /\ IF bSamplesRead + decoded < plan.sampleCount
                     THEN /\ bPc' = "awaitRead"
                          /\ UNCHANGED <<bReader, bResult>>
                     ELSE /\ bPc' = "returned"
                          /\ bReader' = BlobFinally("returned")
                          /\ bResult' = StreamedResult(bSamplesRead + decoded)
    /\ UNCHANGED <<bSource, bTok, bOpt, notBlob>>

\* reader.read() resolves: with the next n bytes of the slice, or with done
BlobRead ==
    /\ bPc = "awaitRead"
    /\ LET plan == BlobPlan(bSource, bTok, bOpt)
           info == parseDatatype(bTok)
           left == plan.bytesToRead - bDelivered
       IN IF left = 0
          THEN \* if (done) break
               /\ bPc' = "returned"
               /\ bReader' = BlobFinally("returned")
               /\ bResult' = StreamedResult(bSamplesRead)
               /\ UNCHANGED <<bDelivered, bPartial, bSamplesRead, bBytesRead, bRuns,
                              bProgress>>
          ELSE \E n \in {Min(ReadSize, left), Min(ReadSize + 1, left), left} :
               LET chunkLength == Len(bPartial) + n
                   completeSamples == chunkLength \div info.bytesPerSample
                   completeBytes == completeSamples * info.bytesPerSample
                   start == plan.byteOffset + bDelivered
                   decoded == Min(completeSamples, plan.sampleCount - bSamplesRead)
                   \* chunk.slice(completeBytes): the tail lies in the bytes just read
                   tail == [i \in 1..(chunkLength - completeBytes) |->
                              LET at == completeBytes + i - 1
                              IN IF at < Len(bPartial) THEN bPartial[at + 1]
                                 ELSE BlobByte(bSource.seed, start + at - Len(bPartial))]
               IN /\ bDelivered' = bDelivered + n
                  /\ bPartial' = tail
                  /\ bRuns' = Append(bRuns, [first |-> bSamplesRead, count |-> decoded,
                                             partial |-> bPartial, start |-> start])
                  /\ bSamplesRead' = bSamplesRead + decoded
                  /\ bBytesRead' = bBytesRead + n
                  /\ bProgress' = OnProgress(bProgress, bBytesRead + n, plan.bytesToRead)
                  /\ IF bSamplesRead + decoded < plan.sampleCount
                     THEN /\ bPc' = "awaitRead"
                          /\ UNCHANGED <<bReader, bResult>>
                     ELSE /\ bPc' = "returned"
                          /\ bReader' = BlobFinally("returned")
                          /\ bResult' = StreamedResult(bSamplesRead + decoded)
    /\ UNCHANGED <<bSource, bTok, bOpt, notBlob>>

\* reader.read() rejects: the error leaves the call through finally
BlobReadError ==
    /\ bPc = "awaitRead"
    /\ bPc' = "thrown"
    /\ bReader' = BlobFinally("thrown")
    /\ UNCHANGED <<bSource, bTok, bOpt, bDelivered, bPartial, bSamplesRead, bBytesRead,
                   bRuns, bProgress, bResult, notBlob>>

BlobNext == BlobDirect \/ BlobOpenStream \/ BlobRead \/ BlobReadError

----------------------------------------------------------------------------
(* JavaScript values and the heap of the metadata model.                   *)
(* A value is [t, n, q, s]: t is its type, n a wide integer (the value of  *)
(* a number, the address of an object), q tells an integer number from a   *)
(* number with a fractional part "frac" (n + 0.5) and from NaN "nan", s    *)
(* holds the characters of a string.  Objects and arrays live in heap      *)
(* cells and are shared by reference, as in JavaScript.                    *)

Val(t, n, q, s) == [t |-> t, n |-> n, q |-> q, s |-> s]

Undefined == Val("undefined", Num(0, 0), "", <<>>)
Null == Val("null", Num(0, 0), "", <<>>)
Bool(b) == Val("boolean", Num(0, IF b THEN 1 ELSE 0), "", <<>>)
Number(n) == Val("number", n, "int", <<>>)
Integer(v) == Number(NumOf(v))
Frac(v) == Val("number", NumOf(v), "frac", <<>>)
NaN == Val("number", Num(0, 0), "nan", <<>>)
String(chars) == Val("string", Num(0, 0), "", chars)
Ref(address) == Val("object", Num(0, address), "", <<>>)

\* typeof value
TypeOf(v) == IF v.t = "null" THEN "object" ELSE v.t

\* !value is false
Truthy(v) ==
    CASE v.t \in {"undefined", "null"} -> FALSE
      [] v.t = "boolean" -> v.n.lo = 1
      [] v.t = "number" -> v.q = "frac" \/ (v.q = "int" /\ v.n # Num(0, 0))
      [] v.t = "string" -> v.s # <<>>
      [] OTHER -> TRUE

\* a < b on wide integers
NumLess(a, b) == a.hi < b.hi \/ (a.hi = b.hi /\ a.lo < b.lo)

\* a < b on numbers (false when either is NaN)
Less(a, b) ==
    /\ a.q # "nan" /\ b.q # "nan"
    /\ \/ NumLess(a.n, b.n)
       \/ a.n = b.n /\ a.q = "int" /\ b.q = "frac"

\* a === b: primitives by value, objects by address, NaN equal to nothing
StrictEquals(a, b) == a = b /\ a.q # "nan"

\* Number.isInteger(value)
IsInteger(v) == v.t = "number" /\ v.q = "int"

IsDigit(c) == c \in {"0", "1", "2", "3", "4", "5", "6", "7", "8", "9"}

Digits == <<"0", "1", "2", "3", "4", "5", "6", "7", "8", "9">>

RECURSIVE DecimalValue(_)
\* the value of a string of decimal digits (short ones: below 65536)
DecimalValue(chars) ==
    IF chars = <<>> THEN 0
    ELSE DecimalValue(SubSeq(chars, 1, Len(chars) - 1)) * 10
           + (CHOOSE d \in 0..9 : Digits[d + 1] = chars[Len(chars)])

\* a heap cell: an object (its own properties in insertion order, as
\* <<key, value>> pairs) or an array (its items)
Cell(kind, fields, items) == [kind |-> kind, fields |-> fields, items |-> items]
Object(fields) == Cell("object", fields, <<>>)
Array(items) == Cell("array", <<>>, items)

\* a property key "namespace:name"; ns = "" is a key without a colon
Key(ns, name) == <<ns, name>>
core(name) == Key("core", name)

\* key.includes(':')
KeyIncludesColon(key) == key[1] # ""

HasField(fields, key) == \E i \in 1..Len(fields) : fields[i][1] = key

FieldOf(fields, key) ==
    IF HasField(fields, key)
    THEN fields[CHOOSE i \in 1..Len(fields) : fields[i][1] = key][2]
    ELSE Undefined

\* object[key] = value: replaces the property or appends a new one
SetField(fields, key, value) ==
    IF HasField(fields, key)
    THEN [i \in 1..Len(fields) |-> IF fields[i][1] = key THEN <<key, value>> ELSE fields[i]]
    ELSE Append(fields, <<key, value>>)

IsCell(h, v) == v.t = "object" /\ v.n.lo \in 1..Len(h)
IsArray(h, v) == IsCell(h, v) /\ h[v.n.lo].kind = "array"
IsObject(h, v) == IsCell(h, v) /\ h[v.n.lo].kind = "object"

\* value[key] raises a TypeError on undefined and null
CanRead(v) == v.t \notin {"undefined", "null"}

\* value[key] for a property key (primitives and arrays have none of them)
Get(h, v, key) == IF IsObject(h, v) THEN FieldOf(h[v.n.lo].fields, key) ELSE Undefined

\* value.length: arrays and strings have one
LengthOf(h, v) ==
    CASE IsArray(h, v) -> Len(h[v.n.lo].items)
      [] v.t = "string" -> Len(v.s)
      [] OTHER -> 0       \* undefined: the loop condition i < undefined is false

\* value[i], 0-based
Index(h, v, i) ==
    CASE IsArray(h, v) -> h[v.n.lo].items[i + 1]
      [] v.t = "string" -> String(<<v.s[i + 1]>>)
      [] OTHER -> Undefined

----------------------------------------------------------------------------
(* Documents: the values a caller writes as literals or JSON.parse builds. *)
(* A document is a tree; Alloc builds it on the heap (every object and     *)
(* array of it a new cell), DocumentAt reads the tree a value stands for.  *)

Prim(v) == [kind |-> "prim", v |-> v, fields |-> <<>>, items |-> <<>>]
Obj(fields) == [kind |-> "object", v |-> Undefined, fields |-> fields, items |-> <<>>]
Arr(items) == [kind |-> "array", v |-> Undefined, fields |-> <<>>, items |-> items]

RECURSIVE Alloc(_, _)
RECURSIVE AllocAll(_, _)
\* the documents of a sequence, one after the other: [heap, vals]
AllocAll(h, docs) ==
    IF docs = <<>> THEN [heap |-> h, vals |-> <<>>]
    ELSE LET first == Alloc(h, Head(docs))
             rest == AllocAll(first.heap, Tail(docs))
         IN [heap |-> rest.heap, vals |-> <<first.val>> \o rest.vals]

\* the document as a value on the heap: [heap, val]
Alloc(h, doc) ==
    CASE doc.kind = "prim" -> [heap |-> h, val |-> doc.v]
      [] doc.kind = "array" ->
            LET r == AllocAll(h, doc.items)
            IN [heap |-> Append(r.heap, Array(r.vals)), val |-> Ref(Len(r.heap) + 1)]
      [] doc.kind = "object" ->
            LET r == AllocAll(h, [i \in 1..Len(doc.fields) |-> doc.fields[i][2]])
            IN [heap |-> Append(r.heap,
                            Object([i \in 1..Len(doc.fields) |->
                                      <<doc.fields[i][1], r.vals[i]>>])),
                val |-> Ref(Len(r.heap) + 1)]

RECURSIVE DocumentAt(_, _)
\* the document a value stands for in heap h (addresses left out)
DocumentAt(h, v) ==
    IF ~IsCell(h, v) THEN Prim(v)
    ELSE LET c == h[v.n.lo]
         IN IF c.kind = "array"
            THEN Arr([i \in 1..Len(c.items) |-> DocumentAt(h, c.items[i])])
            ELSE Obj([i \in 1..Len(c.fields) |->
                        <<c.fields[i][1], DocumentAt(h, c.fields[i][2])>>])

----------------------------------------------------------------------------
(* String(value) and the patterns of the validator *)

RECURSIVE DecimalText(_)
\* the decimal digits of an integer >= 0
DecimalText(v) ==
    IF v < 10 THEN <<Digits[v + 1]>> ELSE Append(DecimalText(v \div 10), Digits[(v % 10) + 1])

Chars(text) ==
    CASE text = "NaN" -> <<"N", "a", "N">>
      [] text = "true" -> <<"t", "r", "u", "e">>
      [] text = "false" -> <<"f", "a", "l", "s", "e">>
      [] text = "null" -> <<"n", "u", "l", "l">>
      [] text = "undefined" -> <<"u", "n", "d", "e", "f", "i", "n", "e", "d">>
      [] text = "[object Object]" ->
            <<"[", "o", "b", "j", "e", "c", "t", " ", "O", "b", "j", "e", "c", "t", "]">>

RECURSIVE ToStringChars(_, _)
RECURSIVE JoinItems(_, _, _)
\* Array.prototype.join(','): null and undefined items give the empty string
JoinItems(h, items, i) ==
    IF i > Len(items) THEN <<>>
    ELSE (IF i > 1 THEN <<",">> ELSE <<>>)
           \o (IF CanRead(items[i]) THEN ToStringChars(h, items[i]) ELSE <<>>)
           \o JoinItems(h, items, i + 1)

\* String(value), the text a RegExp test is run on (numbers below 2^31)
ToStringChars(h, v) ==
    CASE v.t = "string" -> v.s
      [] v.t = "number" /\ v.q = "nan" -> Chars("NaN")
      [] v.t = "number" /\ v.q # "nan" ->
            LET whole == v.n.hi * 65536 + v.n.lo
                \* n + 0.5 for n < 0 is written -(|n| - 1).5
                shown == IF whole >= 0 THEN whole
                         ELSE IF v.q = "frac" THEN -whole - 1 ELSE -whole
            IN (IF whole < 0 THEN <<"-">> ELSE <<>>) \o DecimalText(shown)
                 \o (IF v.q = "frac" THEN <<".", "5">> ELSE <<>>)
      [] v.t = "boolean" -> IF v.n.lo = 1 THEN Chars("true") ELSE Chars("false")
      [] v.t = "null" -> Chars("null")
      [] v.t = "undefined" -> Chars("undefined")
      [] IsArray(h, v) -> JoinItems(h, h[v.n.lo].items, 1)
      [] OTHER -> Chars("[object Object]")

AllDigits(chars, from, to) == \A i \in from..to : IsDigit(chars[i])

\* ToNumber(value), what the operators - and < make of a value; of the
\* numeric strings only the empty one and runs of digits are drawn
ToNumber(h, v) ==
    LET text == IF v.t = "string" THEN v.s ELSE ToStringChars(h, v)
    IN CASE v.t = "number" -> v
         [] v.t = "null" -> Integer(0)
         [] v.t = "boolean" -> Integer(v.n.lo)
         [] v.t = "undefined" -> NaN
         [] OTHER ->          \* a string, or the String() of an object
               IF text = <<>> THEN Integer(0)
               ELSE IF AllDigits(text, 1, Len(text)) THEN Integer(DecimalValue(text))
               ELSE NaN

IsHex(c) ==
    IsDigit(c) \/ c \in {"a", "b", "c", "d", "e", "f", "A", "B", "C", "D", "E", "F"}

\* the groups DATATYPE_PATTERN would have to match in a text: its first
\* character, a trailing _xx, and what lies between
TokenOfText(chars) ==
    LET n == Len(chars)
        suffixed == n >= 4 /\ chars[n - 2] = "_"
        tyEnd == IF suffixed THEN n - 3 ELSE n
        Text(from, to) ==
            IF to - from = 1 THEN chars[from] \o chars[to]
            ELSE IF to - from = 2 THEN chars[from] \o chars[from + 1] \o chars[to]
            ELSE ""
    IN IF n = 0 THEN Token("", "", "")
       ELSE Token(chars[1], Text(2, tyEnd),
                  IF suffixed THEN Text(n - 2, n) ELSE "")

\* /^\d+\.\d+\.\d+/ (a prefix pattern: no $)
VERSION_PATTERN(chars) ==
    \E i \in 1..Len(chars), j \in 1..Len(chars) :
        /\ i + 2 <= j /\ j + 2 <= Len(chars)
        /\ AllDigits(chars, 1, i)
        /\ chars[i + 1] = "."
        /\ AllDigits(chars, i + 2, j)
        /\ chars[j + 1] = "."
        /\ IsDigit(chars[j + 2])

\* /^\d{4}-\d{2}-\d{2}T\d{2}:\d{2}:\d{2}(\.\d+)?Z$/
ISO8601_PATTERN(chars) ==
    LET n == Len(chars)
    IN /\ n >= 20
       /\ AllDigits(chars, 1, 4) /\ chars[5] = "-"
       /\ AllDigits(chars, 6, 7) /\ chars[8] = "-"
       /\ AllDigits(chars, 9, 10) /\ chars[11] = "T"
       /\ AllDigits(chars, 12, 13) /\ chars[14] = ":"
       /\ AllDigits(chars, 15, 16) /\ chars[17] = ":"
       /\ AllDigits(chars, 18, 19)
       /\ chars[n] = "Z"
       /\ n > 20 => (n >= 22 /\ chars[20] = "." /\ AllDigits(chars, 21, n - 1))

\* /^[0-9a-f]{8}-[0-9a-f]{4}-[0-9a-f]{4}-[0-9a-f]{4}-[0-9a-f]{12}$/i
UUID_PATTERN(chars) ==
    /\ Len(chars) = 36
    /\ \A i \in 1..36 : IF i \in {9, 14, 19, 24} THEN chars[i] = "-" ELSE IsHex(chars[i])

----------------------------------------------------------------------------
(* validate(): validateGlobal, validateCaptures, validateAnnotations and   *)
(* validateGeoJSON.  An error is [path, message, value]; a path is         *)
(* [root, index, key, sub], e.g. captures[2].core:geolocation.type is      *)
(* ["captures", 2, core("geolocation"), "type"]; the value is the document *)
(* of the offending value.  A TypeError raised on the way ends the call.   *)

SIGMF_VERSION == <<"1", ".", "2", ".", "0">>

\* 1e12 = 15258789 * 65536 + 4096
MAX_SAMPLE_RATE == Number(Num(15258789, 4096))
MAX_FREQUENCY == Number(Num(15258789, 4096))
MinusMaxFrequency == Number(Num(-15258790, 61440))
SHA512_HEX_LENGTH == 128

NoKey == Key("", "")
Path(root, index, key, sub) == [root |-> root, index |-> index, key |-> key, sub |-> sub]
Error(path, message, value) == [path |-> path, message |-> message, value |-> value]
NoValue == Prim(Undefined)

validateGeoJSON(h, point, root, index, key) ==
    IF TypeOf(point) # "object" \/ point = Null
    THEN <<Error(Path(root, index, key, ""), "must be an object", DocumentAt(h, point))>>
    ELSE
    LET type == Get(h, point, Key("", "type"))
        coords == Get(h, point, Key("", "coordinates"))
        n == LengthOf(h, coords)
        lon == Index(h, coords, 0)
        lat == Index(h, coords, 1)
        alt == IF n = 3 THEN Index(h, coords, 2) ELSE Undefined
    IN (IF type # String(<<"P", "o", "i", "n", "t">>)
        THEN <<Error(Path(root, index, key, "type"), "must be 'Point'", DocumentAt(h, type))>>
        ELSE <<>>)
       \o
       (IF ~IsArray(h, coords)
        THEN <<Error(Path(root, index, key, "coordinates"), "must be an array",
                     DocumentAt(h, coords))>>
        ELSE IF n < 2 \/ n > 3
        THEN <<Error(Path(root, index, key, "coordinates"),
                     "must have 2 or 3 elements [lon, lat] or [lon, lat, alt]",
                     DocumentAt(h, coords))>>
        ELSE (IF TypeOf(lon) # "number" \/ Less(lon, Integer(-180)) \/ Less(Integer(180), lon)
              THEN <<Error(Path(root, index, key, "coordinates[0]"),
                           "longitude must be between -180 and 180", DocumentAt(h, lon))>>
              ELSE <<>>)
             \o
             (IF TypeOf(lat) # "number" \/ Less(lat, Integer(-90)) \/ Less(Integer(90), lat)
              THEN <<Error(Path(root, index, key, "coordinates[1]"),
                           "latitude must be between -90 and 90", DocumentAt(h, lat))>>
              ELSE <<>>)
             \o
             (IF alt # Undefined /\ TypeOf(alt) # "number"
              THEN <<Error(Path(root, index, key, "coordinates[2]"),
                           "altitude must be a number", DocumentAt(h, alt))>>
              ELSE <<>>))

\* the errors of a required text field of global: missing, or not matching
RequiredText(h, g, key, matches, message) ==
    LET v == Get(h, g, key)
    IN IF ~Truthy(v)
       THEN <<Error(Path("global", -1, key, ""), "is required", NoValue)>>
       ELSE IF ~matches
       THEN <<Error(Path("global", -1, key, ""), message, DocumentAt(h, v))>>
       ELSE <<>>

\* the errors of an integer field with a lower limit, when present
IntegerAtLeast(h, v, least, path, message) ==
    IF v # Undefined /\ (TypeOf(v) # "number" \/ ~IsInteger(v) \/ Less(v, Integer(least)))
    THEN <<Error(path, message, DocumentAt(h, v))>>
    ELSE <<>>

\* the errors validateGlobal pushes (global is an object or a primitive)
validateGlobal(h, g) ==
    LET datatype == Get(h, g, core("datatype"))
        version == Get(h, g, core("version"))
        rate == Get(h, g, core("sample_rate"))
        sha == Get(h, g, core("sha512"))
        geo == Get(h, g, core("geolocation"))
    IN RequiredText(h, g, core("datatype"),
                    DATATYPE_PATTERN(TokenOfText(ToStringChars(h, datatype))),
                    "is not a valid datatype")
       \o RequiredText(h, g, core("version"), VERSION_PATTERN(ToStringChars(h, version)),
                       "must match pattern X.Y.Z")
       \o (IF rate = Undefined THEN <<>>
           ELSE IF TypeOf(rate) # "number" \/ Less(rate, Integer(0)) \/ rate = Integer(0)
           THEN <<Error(Path("global", -1, core("sample_rate"), ""),
                        "must be a positive number", DocumentAt(h, rate))>>
           ELSE IF Less(MAX_SAMPLE_RATE, rate)
           THEN <<Error(Path("global", -1, core("sample_rate"), ""),
                        "must be <= 1000000000000", DocumentAt(h, rate))>>
           ELSE <<>>)
       \o IntegerAtLeast(h, Get(h, g, core("num_channels")), 1,
                         Path("global", -1, core("num_channels"), ""),
                         "must be a positive integer")
       \o IntegerAtLeast(h, Get(h, g, core("offset")), 0,
                         Path("global", -1, core("offset"), ""),
                         "must be a non-negative integer")
       \o (IF sha = Undefined THEN <<>>
           ELSE IF TypeOf(sha) # "string" \/ Len(sha.s) # SHA512_HEX_LENGTH
           THEN <<Error(Path("global", -1, core("sha512"), ""),
                        "must be 128 hex characters", DocumentAt(h, sha))>>
           ELSE IF ~(\A i \in 1..Len(sha.s) : IsHex(sha.s[i]))
           THEN <<Error(Path("global", -1, core("sha512"), ""),
                        "must contain only hex characters", DocumentAt(h, sha))>>
           ELSE <<>>)
       \o (IF geo = Undefined THEN <<>>
           ELSE validateGeoJSON(h, geo, "global", -1, core("geolocation")))

\* the sample_start checks without the comparison with lastSampleStart
SampleStartErrorsUnordered(h, sampleStart, last, root, i, sortedMessage) ==
    LET path == Path(root, i, core("sample_start"), "")
    IN IF sampleStart = Undefined THEN <<Error(path, "is required", NoValue)>>
       ELSE IF \/ TypeOf(sampleStart) # "number"
               \/ ~IsInteger(sampleStart)
               \/ Less(sampleStart, Integer(0))
       THEN <<Error(path, "must be a non-negative integer", DocumentAt(h, sampleStart))>>
       ELSE <<>>

\* the errors for core:sample_start of one entry; last is lastSampleStart
SampleStartErrors(h, sampleStart, last, root, i, sortedMessage) ==
    LET path == Path(root, i, core("sample_start"), "")
    IN IF sampleStart = Undefined THEN <<Error(path, "is required", NoValue)>>
       ELSE IF \/ TypeOf(sampleStart) # "number"
               \/ ~IsInteger(sampleStart)
               \/ Less(sampleStart, Integer(0))
       THEN <<Error(path, "must be a non-negative integer", DocumentAt(h, sampleStart))>>
       ELSE IF Less(sampleStart, ToNumber(h, last))
       THEN <<Error(path, sortedMessage, DocumentAt(h, sampleStart))>>
       ELSE <<>>

\* the errors of one capture
CaptureErrors(h, capture, last, i) ==
    LET datetime == Get(h, capture, core("datetime"))
        freq == Get(h, capture, core("frequency"))
        geo == Get(h, capture, core("geolocation"))
    IN SampleStartErrors(h, Get(h, capture, core("sample_start")), last, "captures", i,
                         "captures must be sorted by sample_start ascending")
       \o (IF datetime # Undefined /\ ~ISO8601_PATTERN(ToStringChars(h, datetime))
           THEN <<Error(Path("captures", i, core("datetime"), ""),
                        "must be ISO-8601 UTC format (YYYY-MM-DDTHH:MM:SS.SSSZ)",
                        DocumentAt(h, datetime))>>
           ELSE <<>>)
       \o (IF /\ freq # Undefined
              /\ \/ TypeOf(freq) # "number"
                 \/ Less(MAX_FREQUENCY, freq)
                 \/ Less(freq, MinusMaxFrequency)
           THEN <<Error(Path("captures", i, core("frequency"), ""),
                        "must be a number between -1000000000000 and 1000000000000",
                        DocumentAt(h, freq))>>
           ELSE <<>>)
       \o (IF geo = Undefined THEN <<>>
           ELSE validateGeoJSON(h, geo, "captures", i, core("geolocation")))

\* the checks of one annotation without the one that the edges come in pairs
AnnotationErrorsWithoutPairing(h, annotation, last, i) ==
    LET lower == Get(h, annotation, core("freq_lower_edge"))
        upper == Get(h, annotation, core("freq_upper_edge"))
        hasLower == lower # Undefined
        hasUpper == upper # Undefined
        uuid == Get(h, annotation, core("uuid"))
    IN SampleStartErrors(h, Get(h, annotation, core("sample_start")), last, "annotations", i,
                         "annotations must be sorted by sample_start ascending")
       \o IntegerAtLeast(h, Get(h, annotation, core("sample_count")), 0,
                         Path("annotations", i, core("sample_count"), ""),
                         "must be a non-negative integer")
       \o (IF hasLower /\ hasUpper /\ TypeOf(lower) # "number"
           THEN <<Error(Path("annotations", i, core("freq_lower_edge"), ""),
                        "must be a number", DocumentAt(h, lower))>>
           ELSE <<>>)
       \o (IF hasLower /\ hasUpper /\ TypeOf(upper) # "number"
           THEN <<Error(Path("annotations", i, core("freq_upper_edge"), ""),
                        "must be a number", DocumentAt(h, upper))>>
           ELSE <<>>)
       \o (IF /\ hasLower /\ hasUpper
              /\ TypeOf(lower) = "number" /\ TypeOf(upper) = "number"
              /\ Less(upper, lower)
           THEN <<Error(Path("annotations", i, NoKey, ""),
                        "core:freq_lower_edge must be <= core:freq_upper_edge",
                        Obj(<<<<Key("", "lower"), DocumentAt(h, lower)>>,
                              <<Key("", "upper"), DocumentAt(h, upper)>>>>))>>
           ELSE <<>>)
       \o (IF uuid # Undefined /\ ~UUID_PATTERN(ToStringChars(h, uuid))
           THEN <<Error(Path("annotations", i, core("uuid"), ""),
                        "must be a valid UUID", DocumentAt(h, uuid))>>
           ELSE <<>>)

\* the errors of one annotation
AnnotationErrors(h, annotation, last, i) ==
    LET lower == Get(h, annotation, core("freq_lower_edge"))
        upper == Get(h, annotation, core("freq_upper_edge"))
        hasLower == lower # Undefined
        hasUpper == upper # Undefined
        uuid == Get(h, annotation, core("uuid"))
    IN SampleStartErrors(h, Get(h, annotation, core("sample_start")), last, "annotations", i,
                         "annotations must be sorted by sample_start ascending")
       \o IntegerAtLeast(h, Get(h, annotation, core("sample_count")), 0,
                         Path("annotations", i, core("sample_count"), ""),
                         "must be a non-negative integer")
       \o (IF hasLower # hasUpper
           THEN <<Error(Path("annotations", i, NoKey, ""),
                        "core:freq_lower_edge and core:freq_upper_edge must both be present or absent",
                        NoValue)>>
           ELSE <<>>)
       \o (IF hasLower /\ hasUpper /\ TypeOf(lower) # "number"
           THEN <<Error(Path("annotations", i, core("freq_lower_edge"), ""),
                        "must be a number", DocumentAt(h, lower))>>
           ELSE <<>>)
       \o (IF hasLower /\ hasUpper /\ TypeOf(upper) # "number"
           THEN <<Error(Path("annotations", i, core("freq_upper_edge"), ""),
                        "must be a number", DocumentAt(h, upper))>>
           ELSE <<>>)
       \o (IF /\ hasLower /\ hasUpper
              /\ TypeOf(lower) = "number" /\ TypeOf(upper) = "number"
              /\ Less(upper, lower)
           THEN <<Error(Path("annotations", i, NoKey, ""),
                        "core:freq_lower_edge must be <= core:freq_upper_edge",
                        Obj(<<<<Key("", "lower"), DocumentAt(h, lower)>>,
                              <<Key("", "upper"), DocumentAt(h, upper)>>>>))>>
           ELSE <<>>)
       \o (IF uuid # Undefined /\ ~UUID_PATTERN(ToStringChars(h, uuid))
           THEN <<Error(Path("annotations", i, core("uuid"), ""),
                        "must be a valid UUID", DocumentAt(h, uuid))>>
           ELSE <<>>)

RECURSIVE EntriesLoop(_, _, _, _, _)
\* the loop of validateCaptures / validateAnnotations from index i on, with
\* lastSampleStart = last: [threw, errors].  Reading a property of an entry
\* that is null or undefined raises a TypeError.
EntriesLoop(h, root, entries, i, last) ==
    IF i >= LengthOf(h, entries) THEN [threw |-> FALSE, errors |-> <<>>]
    ELSE LET entry == Index(h, entries, i)
         IN IF ~CanRead(entry) THEN [threw |-> TRUE, errors |-> <<>>]
            ELSE LET sampleStart == Get(h, entry, core("sample_start"))
                     here == IF root = "captures" THEN CaptureErrors(h, entry, last, i)
                             ELSE AnnotationErrors(h, entry, last, i)
                     rest == EntriesLoop(h, root, entries, i + 1,
                                         IF sampleStart = Undefined THEN last
                                         ELSE sampleStart)
                 IN [threw |-> rest.threw, errors |-> here \o rest.errors]

\* this.captures.length raises a TypeError when captures is null or undefined
validateCaptures(h, captures) ==
    IF ~CanRead(captures) THEN [threw |-> TRUE, errors |-> <<>>]
    ELSE EntriesLoop(h, "captures", captures, 0, Integer(-1))

validateAnnotations(h, annotations) ==
    IF ~CanRead(annotations) THEN [threw |-> TRUE, errors |-> <<>>]
    ELSE EntriesLoop(h, "annotations", annotations, 0, Integer(-1))

\* no validate() call made yet
NoValidation == [called |-> FALSE, threw |-> FALSE, valid |-> FALSE, errors |-> <<>>]

ValidationThrew == [called |-> TRUE, threw |-> TRUE, valid |-> FALSE, errors |-> <<>>]

\* a validate() that collects the errors of the annotations before those of the captures
validateAnnotationsFirst(h, global, captures, annotations) ==
    IF ~CanRead(global) THEN ValidationThrew      \* g['core:datatype'] on null
    ELSE
    LET c == validateCaptures(h, captures)
        a == validateAnnotations(h, annotations)
        errors == validateGlobal(h, global) \o a.errors \o c.errors
    IN IF c.threw \/ a.threw THEN ValidationThrew
       ELSE [called |-> TRUE, threw |-> FALSE, valid |-> errors = <<>>, errors |-> errors]

\* a validate() that also checks the fields of the registered extensions:
\* one finding per definition in the registry
validateRegisteredExtensions(h, global, captures, annotations) ==
    IF ~CanRead(global) THEN ValidationThrew
    ELSE
    LET c == validateCaptures(h, captures)
        a == validateAnnotations(h, annotations)
        fields == [i \in 1..Len(extensionRegistry) |->
                      Error("global", "Required extension field is missing", NoValue)]
        errors == validateGlobal(h, global) \o c.errors \o a.errors \o fields
    IN IF c.threw \/ a.threw THEN ValidationThrew
       ELSE [called |-> TRUE, threw |-> FALSE, valid |-> errors = <<>>, errors |-> errors]

validate(h, global, captures, annotations) ==
    IF ~CanRead(global) THEN ValidationThrew      \* g['core:datatype'] on null
    ELSE
    LET c == validateCaptures(h, captures)
        a == validateAnnotations(h, annotations)
        errors == validateGlobal(h, global) \o c.errors \o a.errors
    IN IF c.threw \/ a.threw THEN ValidationThrew
       ELSE [called |-> TRUE, threw |-> FALSE, valid |-> errors = <<>>, errors |-> errors]

----------------------------------------------------------------------------
(* SigMFRecording: the constructor, fromJSON, the mutators, toMetadata.    *)
(* An operation that can fail gives [threw, heap, ...]; the sort gives the *)
(* set of its possible outcomes.                                           *)

RECURSIVE CopyOptions(_, _, _, _)
\* the chain of  if (options.x !== undefined) target['core:y'] = options.x
\* over the <<x, y>> of pairs
CopyOptions(h, options, pairs, fields) ==
    IF pairs = <<>> THEN fields
    ELSE LET v == Get(h, options, Key("", Head(pairs)[1]))
         IN CopyOptions(h, options, Tail(pairs),
                        IF v # Undefined THEN SetField(fields, core(Head(pairs)[2]), v)
                        ELSE fields)

ConstructorOptions ==
    <<<<"sampleRate", "sample_rate">>, <<"author", "author">>,
      <<"description", "description">>, <<"hw", "hw">>, <<"license", "license">>,
      <<"numChannels", "num_channels">>, <<"recorder", "recorder">>,
      <<"geolocation", "geolocation">>>>

NonConformingOptions ==
    <<<<"dataset", "dataset">>, <<"trailingBytes", "trailing_bytes">>,
      <<"metadataOnly", "metadata_only">>>>

CaptureOptions ==
    <<<<"datetime", "datetime">>, <<"frequency", "frequency">>,
      <<"globalIndex", "global_index">>, <<"headerBytes", "header_bytes">>,
      <<"geolocation", "geolocation">>>>

AnnotationOptions ==
    <<<<"sampleCount", "sample_count">>, <<"freqLowerEdge", "freq_lower_edge">>,
      <<"freqUpperEdge", "freq_upper_edge">>, <<"label", "label">>,
      <<"comment", "comment">>, <<"generator", "generator">>, <<"uuid", "uuid">>>>

\* [...value]: the items of an array, the characters of a string
Spreadable(h, v) == IsArray(h, v) \/ v.t = "string"

SpreadItems(h, v) ==
    IF IsArray(h, v) THEN h[v.n.lo].items ELSE [i \in 1..Len(v.s) |-> String(<<v.s[i]>>)]

\* {...value}: the own properties of an object (the indices of an array or
\* string, up to 10 of them), nothing for other values
SpreadFields(h, v) ==
    IF IsObject(h, v) THEN h[v.n.lo].fields
    ELSE IF Spreadable(h, v)
    THEN [i \in 1..LengthOf(h, v) |-> <<Key("", Digits[i]), Index(h, v, i - 1)>>]
    ELSE <<>>

\* new SigMFRecording(options): [heap, global, captures, annotations]
Constructor(h, options) ==
    LET version == Get(h, options, Key("", "version"))
        base == <<<<core("datatype"), Get(h, options, Key("", "datatype"))>>,
                  <<core("version"),
                    IF CanRead(version) THEN version ELSE String(SIGMF_VERSION)>>>>
        copied == CopyOptions(h, options, ConstructorOptions, base)
        extensions == Get(h, options, Key("", "extensions"))
        \* [...options.extensions]
        h1 == IF extensions # Undefined THEN Append(h, Array(SpreadItems(h, extensions)))
              ELSE h
        withExt == IF extensions # Undefined
                   THEN SetField(copied, core("extensions"), Ref(Len(h1))) ELSE copied
        ncd == Get(h, options, Key("", "nonConforming"))
        fields == IF ncd # Undefined THEN CopyOptions(h1, ncd, NonConformingOptions, withExt)
                  ELSE withExt
        h2 == h1 \o <<Object(fields), Array(<<>>), Array(<<>>)>>
    IN [heap |-> h2, global |-> Ref(Len(h1) + 1), captures |-> Ref(Len(h1) + 2),
        annotations |-> Ref(Len(h1) + 3)]

\* SigMFRecording.fromJSON(data) on a parsed document:
\* [threw, heap, global, captures, annotations]
fromJSON(h, data) ==
    LET global == Get(h, data, Key("", "global"))
        failed(error) == [threw |-> TRUE, error |-> error, heap |-> h, global |-> Undefined,
                          captures |-> Undefined, annotations |-> Undefined]
    IN IF ~CanRead(data)                      \* data.global on null or undefined
       THEN failed("TypeError: Cannot read properties of null (reading 'global')")
       ELSE IF ~Truthy(global) \/ TypeOf(global) # "object"
       THEN failed("Invalid SigMF: missing or invalid global object")
       ELSE IF ~Truthy(Get(h, global, core("datatype")))
       THEN failed("Invalid SigMF: missing required field core:datatype")
       ELSE IF ~Truthy(Get(h, global, core("version")))
       THEN failed("Invalid SigMF: missing required field core:version")
       ELSE
       \* the recording is constructed and its three fields are then replaced:
       \* { ...data.global }, [...data.captures] or [], [...data.annotations] or []
       LET captures == Get(h, data, Key("", "captures"))
           annotations == Get(h, data, Key("", "annotations"))
           h1 == h \o <<Object(SpreadFields(h, global)),
                        Array(IF IsArray(h, captures) THEN SpreadItems(h, captures)
                              ELSE <<>>),
                        Array(IF IsArray(h, annotations) THEN SpreadItems(h, annotations)
                              ELSE <<>>)>>
       IN [threw |-> FALSE, error |-> "", heap |-> h1, global |-> Ref(Len(h) + 1),
           captures |-> Ref(Len(h) + 2), annotations |-> Ref(Len(h) + 3)]

\* the comparator (a, b) => a['core:sample_start'] - b['core:sample_start']
\* by its sign; a NaN difference counts as 0
CompareSampleStart(h, a, b) ==
    LET x == ToNumber(h, Get(h, a, core("sample_start")))
        y == ToNumber(h, Get(h, b, core("sample_start")))
    IN IF Less(x, y) THEN -1 ELSE IF Less(y, x) THEN 1 ELSE 0

\* x placed behind the last item that does not follow it
InsertSorted(h, sorted, x) ==
    LET fits == {i \in 1..Len(sorted) : CompareSampleStart(h, sorted[i], x) <= 0}
        at == IF fits = {} THEN 0 ELSE CHOOSE i \in fits : \A j \in fits : j <= i
    IN SubSeq(sorted, 1, at) \o <<x>> \o SubSeq(sorted, at + 1, Len(sorted))

RECURSIVE StableSort(_, _)
StableSort(h, items) ==
    IF items = <<>> THEN <<>>
    ELSE InsertSorted(h, StableSort(h, SubSeq(items, 1, Len(items) - 1)), items[Len(items)])

\* the comparator orders the items consistently (equal is transitive)
Consistent(h, items) ==
    \A i, j, k \in 1..Len(items) :
        (CompareSampleStart(h, items[i], items[j]) = 0
           /\ CompareSampleStart(h, items[j], items[k]) = 0)
        => CompareSampleStart(h, items[i], items[k]) = 0

PermutationsOf(items) ==
    LET n == Len(items)
    IN {[i \in 1..n |-> items[p[i]]] :
          p \in {q \in [1..n -> 1..n] : \A i, j \in 1..n : q[i] = q[j] => i = j}}

\* Array.prototype.sort(comparator): undefined items go last without being
\* compared; a comparator that throws (an item is null) leaves the array as
\* it was; an inconsistent comparator leaves the order to the engine
SortOutcomes(h, items) ==
    LET defined == SelectSeq(items, LAMBDA v : v # Undefined)
        rest == SelectSeq(items, LAMBDA v : v = Undefined)
    IN IF Len(defined) >= 2 /\ \E i \in 1..Len(defined) : ~CanRead(defined[i])
       THEN {[threw |-> TRUE, items |-> items]}
       ELSE IF Consistent(h, defined)
       THEN {[threw |-> FALSE, items |-> StableSort(h, defined) \o rest]}
       ELSE {[threw |-> FALSE, items |-> p \o rest] : p \in PermutationsOf(defined)}

\* a recording that leaves the captures in insertion order
sortCapturesOmitted(h, captures) == {[threw |-> FALSE, heap |-> h]}

sortCaptures(h, captures) ==
    {[threw |-> o.threw, heap |-> [h EXCEPT ![captures.n.lo].items = o.items]] :
       o \in SortOutcomes(h, h[captures.n.lo].items)}

sortAnnotations(h, annotations) ==
    {[threw |-> o.threw, heap |-> [h EXCEPT ![annotations.n.lo].items = o.items]] :
       o \in SortOutcomes(h, h[annotations.n.lo].items)}

\* an addCapture that replaces an entry with the same sample_start
addCaptureReplacingEqualStart(h, captures, capture) ==
    LET fields == CopyOptions(h, capture, CaptureOptions,
                     <<<<core("sample_start"), Get(h, capture, Key("", "sampleStart"))>>>>)
        h1 == Append(h, Object(fields))
        SameStart(item) == Get(h1, item, core("sample_start")) = FieldOf(fields, core("sample_start"))
    IN IF ~IsArray(h1, captures) THEN {[threw |-> TRUE, heap |-> h1]}
       ELSE IF \E i \in 1..Len(h1[captures.n.lo].items) : SameStart(h1[captures.n.lo].items[i])
       THEN sortCaptures([h1 EXCEPT ![captures.n.lo].items =
                             [i \in 1..Len(@) |-> IF SameStart(@[i]) THEN Ref(Len(h1)) ELSE @[i]]],
                         captures)
       ELSE sortCaptures([h1 EXCEPT ![captures.n.lo].items = Append(@, Ref(Len(h1)))],
                         captures)

\* addCapture(capture): the outcomes [threw, heap]
addCapture(h, captures, capture) ==
    LET fields == CopyOptions(h, capture, CaptureOptions,
                     <<<<core("sample_start"), Get(h, capture, Key("", "sampleStart"))>>>>)
        h1 == Append(h, Object(fields))
    IN IF ~IsArray(h1, captures) THEN {[threw |-> TRUE, heap |-> h1]}   \* no push to call
       ELSE sortCaptures([h1 EXCEPT ![captures.n.lo].items = Append(@, Ref(Len(h1)))],
                         captures)

\* addAnnotation(annotation): the outcomes [threw, heap]
addAnnotation(h, annotations, annotation) ==
    LET fields == CopyOptions(h, annotation, AnnotationOptions,
                     <<<<core("sample_start"), Get(h, annotation, Key("", "sampleStart"))>>>>)
        h1 == Append(h, Object(fields))
    IN IF ~IsArray(h1, annotations) THEN {[threw |-> TRUE, heap |-> h1]}
       ELSE sortAnnotations([h1 EXCEPT ![annotations.n.lo].items = Append(@, Ref(Len(h1)))],
                            annotations)

\* object[key] = value in a module (strict mode): a TypeError unless the
\* target is an object or an array
CanWrite(h, target) == IsCell(h, target)

SetProperty(h, target, key, value) ==
    [h EXCEPT ![target.n.lo].fields = SetField(@, key, value)]

\* addExtension(extension): [threw, heap]
addExtension(h, global, extension) ==
    LET present == Get(h, global, core("extensions"))
        \* if (!this.global['core:extensions']) this.global['core:extensions'] = []
        h1 == IF Truthy(present) THEN h
              ELSE SetProperty(Append(h, Array(<<>>)), global, core("extensions"),
                               Ref(Len(h) + 1))
        list == Get(h1, global, core("extensions"))
        items == h1[list.n.lo].items
        name == Get(h1, extension, Key("", "name"))
    IN IF ~CanRead(global) \/ (~Truthy(present) /\ ~CanWrite(h, global))
       THEN [threw |-> TRUE, heap |-> h]
       ELSE IF ~IsArray(h1, list) THEN [threw |-> TRUE, heap |-> h1]   \* no find to call
       ELSE
       LET Matches(i) == StrictEquals(Get(h1, items[i], Key("", "name")), name)
           \* find() reads e.name of every item up to the first match
           scanned == {i \in 1..Len(items) : \A j \in 1..(i - 1) : ~Matches(j)}
           existing == IF \E i \in scanned : Matches(i)
                       THEN items[CHOOSE i \in scanned : Matches(i)] ELSE Undefined
       IN IF \/ \E i \in scanned : ~CanRead(items[i])               \* e.name on null
             \/ (items # <<>> /\ ~CanRead(extension))
          THEN [threw |-> TRUE, heap |-> h1]
          ELSE IF Truthy(existing) THEN [threw |-> FALSE, heap |-> h1]
          ELSE [threw |-> FALSE,
                heap |-> [h1 EXCEPT ![list.n.lo].items = Append(@, extension)]]

\* toMetadata(): [threw, heap, val]; val is the new document
toMetadata(h, global, captures, annotations) ==
    IF ~Spreadable(h, captures) \/ ~Spreadable(h, annotations)
    THEN [threw |-> TRUE, heap |-> h, val |-> Undefined]     \* [...x]: x is not iterable
    ELSE
    LET n == Len(h)
        document == Object(<<<<Key("", "global"), Ref(n + 1)>>,
                             <<Key("", "captures"), Ref(n + 2)>>,
                             <<Key("", "annotations"), Ref(n + 3)>>>>)
    IN [threw |-> FALSE,
        heap |-> h \o <<Object(SpreadFields(h, global)),
                        Array(SpreadItems(h, captures)),
                        Array(SpreadItems(h, annotations)),
                        document>>,
        val |-> Ref(n + 4)]

----------------------------------------------------------------------------
(* The recording scenario: one Recording, made by the constructor or by    *)
(* fromJSON, then used through its methods and its public fields.          *)

T_cf32_le == <<"c", "f", "3", "2", "_", "l", "e">>
T_1_0_0 == <<"1", ".", "0", ".", "0">>
T_Point == <<"P", "o", "i", "n", "t">>

Field(name, doc) == <<Key("", name), doc>>
CoreField(name, doc) == <<core(name), doc>>

ExtensionDoc(name) ==
    Obj(<<Field("name", Prim(String(<<name>>))), Field("version", Prim(String(T_1_0_0))),
          Field("optional", Prim(Bool(TRUE)))>>)

\* sample_start values of the entries added and loaded
SampleStarts == {0, 500, 1000}

ConstructorInputs ==
    {Obj(<<Field("datatype", Prim(String(T_cf32_le)))>>),
     Obj(<<Field("datatype", Prim(String(T_cf32_le))), Field("sampleRate", Prim(Integer(48000))),
           Field("extensions", Arr(<<ExtensionDoc("a")>>))>>)}

CaptureInputs ==
    {Obj(<<Field("sampleStart", Prim(Integer(s)))>>) : s \in SampleStarts}
    \cup {Obj(<<Field("sampleStart", Prim(Integer(500))), Field("frequency", Prim(Integer(100)))>>)}

AnnotationInputs ==
    {Obj(<<Field("sampleStart", Prim(Integer(s)))>>) : s \in SampleStarts}
    \cup {Obj(<<Field("sampleStart", Prim(Integer(0))), Field("sampleCount", Prim(Integer(5))),
                Field("freqLowerEdge", Prim(Integer(20))), Field("freqUpperEdge", Prim(Integer(10)))>>)}

EntryDoc(start) == Obj(<<CoreField("sample_start", Prim(start))>>)

GlobalDoc == Obj(<<CoreField("datatype", Prim(String(T_cf32_le))),
                   CoreField("version", Prim(String(T_1_0_0)))>>)

\* documents given to fromJSON: well-formed ones, unsorted and malformed
\* entries, missing parts
JsonDocuments ==
    {Obj(<<Field("global", GlobalDoc),
           Field("captures", Arr(<<EntryDoc(Integer(0)), EntryDoc(Integer(500))>>)),
           Field("annotations", Arr(<<EntryDoc(Integer(1000))>>))>>),
     Obj(<<Field("global", GlobalDoc),
           Field("captures", Arr(<<EntryDoc(Integer(500)), EntryDoc(Integer(0))>>)),
           Field("annotations", Arr(<<>>))>>),
     Obj(<<Field("global", GlobalDoc), Field("captures", Arr(<<Prim(Null)>>))>>),
     Obj(<<Field("global", GlobalDoc),
           Field("captures", Prim(String(<<"a", "b">>))),
           Field("annotations", Arr(<<Prim(Integer(5)), EntryDoc(Frac(1))>>))>>),
     Obj(<<Field("global", Obj(<<CoreField("version", Prim(String(T_1_0_0)))>>))>>),
     Obj(<<Field("captures", Arr(<<>>))>>),
     Prim(Null)}

\* values assigned to recording.captures and recording.annotations
EntriesAssigned ==
    {Arr(<<EntryDoc(Integer(1000)), EntryDoc(Integer(500))>>),
     Arr(<<EntryDoc(String(<<"x">>)), EntryDoc(Integer(0))>>),
     Arr(<<Prim(Null)>>),
     Prim(Null)}

\* values assigned to recording.global
GlobalsAssigned ==
    {Obj(<<CoreField("datatype", Prim(String(<<"b", "o", "g", "u", "s">>))),
           CoreField("geolocation",
               Obj(<<Field("type", Prim(String(T_Point))),
                     Field("coordinates", Arr(<<Prim(Integer(200)), Prim(Integer(45))>>))>>))>>),
     Prim(Null)}

\* setExtensionField(key, value) calls
ExtensionFieldsSet ==
    {<<Key("ant", "gain"), Integer(3)>>, <<Key("", "gain"), Integer(3)>>,
     <<core("datatype"), String(<<"b", "o", "g", "u", "s">>)>>}

\* in-place edits entry[key] = value of a capture or annotation
EntryEdits == {<<core("sample_start"), Integer(7)>>}

RecInit ==
    /\ rPc = "none"
    /\ heap = <<>>
    /\ rGlobal = Undefined
    /\ rCaptures = Undefined
    /\ rAnnotations = Undefined
    /\ rSnapshot = Undefined
    /\ rResult = NoValidation
    /\ rThrown = FALSE
    /\ rCalls = 0

\* one more call or assignment, while the scenario goes on
Call == rCalls < MaxCalls /\ rCalls' = rCalls + 1

\* new SigMFRecording(options)
Construct ==
    /\ rPc = "none"
    /\ Call
    /\ \E doc \in ConstructorInputs :
         /\ LET options == Alloc(heap, doc)
                made == Constructor(options.heap, options.val)
            IN /\ heap' = made.heap
               /\ rGlobal' = made.global
               /\ rCaptures' = made.captures
               /\ rAnnotations' = made.annotations
    /\ rPc' = "live"
    /\ rThrown' = FALSE
    /\ rResult' = NoValidation
    /\ UNCHANGED <<rSnapshot, notRec>>

\* SigMFRecording.fromJSON(input)
FromJSON ==
    /\ rPc = "none"
    /\ Call
    /\ \E doc \in JsonDocuments :
         /\ LET data == Alloc(heap, doc)
                made == fromJSON(data.heap, data.val)
            IN /\ heap' = made.heap
               /\ rGlobal' = made.global
               /\ rCaptures' = made.captures
               /\ rAnnotations' = made.annotations
               /\ rPc' = IF made.threw THEN "none" ELSE "live"
               /\ rThrown' = made.threw
    /\ rResult' = NoValidation
    /\ UNCHANGED <<rSnapshot, notRec>>

AddCapture ==
    /\ rPc = "live"
    /\ Call
    /\ \E doc \in CaptureInputs :
         /\ LET capture == Alloc(heap, doc)
            IN \E o \in addCapture(capture.heap, rCaptures, capture.val) :
                 /\ heap' = o.heap
                 /\ rThrown' = o.threw
    /\ rResult' = NoValidation
    /\ UNCHANGED <<rPc, rGlobal, rCaptures, rAnnotations, rSnapshot, notRec>>

AddAnnotation ==
    /\ rPc = "live"
    /\ Call
    /\ \E doc \in AnnotationInputs :
         /\ LET annotation == Alloc(heap, doc)
            IN \E o \in addAnnotation(annotation.heap, rAnnotations, annotation.val) :
                 /\ heap' = o.heap
                 /\ rThrown' = o.threw
    /\ rResult' = NoValidation
    /\ UNCHANGED <<rPc, rGlobal, rCaptures, rAnnotations, rSnapshot, notRec>>

\* setSampleRate(rate): this.global['core:sample_rate'] = rate
SetSampleRate ==
    /\ rPc = "live"
    /\ Call
    /\ \E rate \in {Integer(0)} :
         IF CanWrite(heap, rGlobal)
         THEN /\ heap' = SetProperty(heap, rGlobal, core("sample_rate"), rate)
              /\ rThrown' = FALSE
         ELSE /\ rThrown' = TRUE
              /\ UNCHANGED heap
    /\ rResult' = NoValidation
    /\ UNCHANGED <<rPc, rGlobal, rCaptures, rAnnotations, rSnapshot, notRec>>

\* setExtensionField(key, value)
SetExtensionField ==
    /\ rPc = "live"
    /\ Call
    /\ \E kv \in ExtensionFieldsSet :
         IF KeyIncludesColon(kv[1]) /\ CanWrite(heap, rGlobal)
         THEN /\ heap' = SetProperty(heap, rGlobal, kv[1], kv[2])
              /\ rThrown' = FALSE
         ELSE /\ rThrown' = TRUE             \* the format Error, or a TypeError
              /\ UNCHANGED heap
    /\ rResult' = NoValidation
    /\ UNCHANGED <<rPc, rGlobal, rCaptures, rAnnotations, rSnapshot, notRec>>

AddExtension ==
    /\ rPc = "live"
    /\ Call
    /\ \E name \in {"a", "b"} :
         /\ LET extension == Alloc(heap, ExtensionDoc(name))
                r == addExtension(extension.heap, rGlobal, extension.val)
            IN /\ heap' = r.heap
               /\ rThrown' = r.threw
    /\ rResult' = NoValidation
    /\ UNCHANGED <<rPc, rGlobal, rCaptures, rAnnotations, rSnapshot, notRec>>

\* recording.global = value
AssignGlobal ==
    /\ rPc = "live"
    /\ Call
    /\ \E doc \in GlobalsAssigned :
         /\ LET a == Alloc(heap, doc)
            IN heap' = a.heap /\ rGlobal' = a.val
    /\ rThrown' = FALSE
    /\ rResult' = NoValidation
    /\ UNCHANGED <<rPc, rCaptures, rAnnotations, rSnapshot, notRec>>

\* recording.captures = value
AssignCaptures ==
    /\ rPc = "live"
    /\ Call
    /\ \E doc \in EntriesAssigned :
         /\ LET a == Alloc(heap, doc)
            IN heap' = a.heap /\ rCaptures' = a.val
    /\ rThrown' = FALSE
    /\ rResult' = NoValidation
    /\ UNCHANGED <<rPc, rGlobal, rAnnotations, rSnapshot, notRec>>

\* recording.annotations = value
AssignAnnotations ==
    /\ rPc = "live"
    /\ Call
    /\ \E doc \in EntriesAssigned :
         /\ LET a == Alloc(heap, doc)
            IN heap' = a.heap /\ rAnnotations' = a.val
    /\ rThrown' = FALSE
    /\ rResult' = NoValidation
    /\ UNCHANGED <<rPc, rGlobal, rCaptures, rSnapshot, notRec>>

\* recording.captures[0][key] = value or recording.annotations[0][key] = value
EditEntry ==
    /\ rPc = "live"
    /\ Call
    /\ \E list \in {rCaptures, rAnnotations} :
         /\ IsArray(heap, list)
         /\ LengthOf(heap, list) > 0
         /\ IsObject(heap, Index(heap, list, 0))
         /\ \E kv \in EntryEdits :
              heap' = SetProperty(heap, Index(heap, list, 0), kv[1], kv[2])
    /\ rThrown' = FALSE
    /\ rResult' = NoValidation
    /\ UNCHANGED <<rPc, rGlobal, rCaptures, rAnnotations, rSnapshot, notRec>>

\* recording.validate()
Validate ==
    /\ rPc = "live"
    /\ Call
    /\ LET result == validate(heap, rGlobal, rCaptures, rAnnotations)
       IN rResult' = result /\ rThrown' = result.threw
    /\ UNCHANGED <<heap, rPc, rGlobal, rCaptures, rAnnotations, rSnapshot, notRec>>

\* snapshot = recording.toMetadata()
ToMetadata ==
    /\ rPc = "live"
    /\ Call
    /\ LET r == toMetadata(heap, rGlobal, rCaptures, rAnnotations)
       IN /\ heap' = r.heap
          /\ rThrown' = r.threw
          /\ rSnapshot' = IF r.threw THEN rSnapshot ELSE r.val
    /\ rResult' = NoValidation
    /\ UNCHANGED <<rPc, rGlobal, rCaptures, rAnnotations, notRec>>

RecNext ==
    \/ Construct
    \/ FromJSON
    \/ AddCapture
    \/ AddAnnotation
    \/ SetSampleRate
    \/ SetExtensionField
    \/ AddExtension
    \/ AssignGlobal
    \/ AssignCaptures
    \/ AssignAnnotations
    \/ EditEntry
    \/ Validate
    \/ ToMetadata

----------------------------------------------------------------------------
(* The archive layer (archive.ts).  An archive is its bytes, a sequence of *)
(* 0..255; a text is the sequence of its characters.  Metadata documents   *)
(* are trees (Prim / Obj / Arr) whose property keys are texts.             *)

\* TAR block size (512 bytes)
BLOCK_SIZE == 512

\* TAR header field offsets
TAR_HEADER ==
    [name |-> [offset |-> 0, size |-> 100],
     size |-> [offset |-> 124, size |-> 12],
     typeflag |-> [offset |-> 156, size |-> 1],
     prefix |-> [offset |-> 345, size |-> 155]]

\* the characters with codes 32..126, in code order (#96 is the grave accent)
Ascii ==
    <<" ", "!", "\"", "#", "$", "%", "&", "'", "(", ")", "*", "+", ",", "-", ".", "/",
      "0", "1", "2", "3", "4", "5", "6", "7", "8", "9", ":", ";", "<", "=", ">", "?",
      "@", "A", "B", "C", "D", "E", "F", "G", "H", "I", "J", "K", "L", "M", "N", "O",
      "P", "Q", "R", "S", "T", "U", "V", "W", "X", "Y", "Z", "[", "\\", "]", "^", "_",
      "#96", "a", "b", "c", "d", "e", "f", "g", "h", "i", "j", "k", "l", "m", "n", "o",
      "p", "q", "r", "s", "t", "u", "v", "w", "x", "y", "z", "{", "|", "}", "~">>

\* new TextEncoder().encode(text), for texts of ASCII characters
TextEncode(text) ==
    [i \in 1..Len(text) |->
        IF text[i] = "\n" THEN 10
        ELSE 31 + (CHOOSE c \in 1..Len(Ascii) : Ascii[c] = text[i])]

\* new TextDecoder(label).decode(bytes); a byte outside the printable ASCII
\* range decodes to a character of its own, written #code
TextDecode(bytes) ==
    [i \in 1..Len(bytes) |->
        IF bytes[i] = 10 THEN "\n"
        ELSE IF bytes[i] \in 32..126 THEN Ascii[bytes[i] - 31]
        ELSE "#" \o ToString(bytes[i])]

Zeros(n) == [i \in 1..n |-> 0]

\* the index of the first x in s from index i on, or 0
IndexOf(s, x, i) ==
    LET found == {j \in i..Len(s) : s[j] = x}
    IN IF found = {} THEN 0 ELSE CHOOSE j \in found : \A k \in found : j <= k

\* text.endsWith(suffix)
EndsWith(text, suffix) ==
    /\ Len(text) >= Len(suffix)
    /\ SubSeq(text, Len(text) - Len(suffix) + 1, Len(text)) = suffix

SigmfMeta == <<".", "s", "i", "g", "m", "f", "-", "m", "e", "t", "a">>
SigmfData == <<".", "s", "i", "g", "m", "f", "-", "d", "a", "t", "a">>

----------------------------------------------------------------------------
(* JSON.stringify(value, null, 2) and JSON.parse(text) *)

\* a value JSON.stringify leaves out of an object and writes as null in an array
Omitted(doc) == doc.kind = "prim" /\ doc.v.t = "undefined"

RECURSIVE Quote(_)
\* the characters of a string between its quotes: " and \ escaped
Quote(chars) ==
    IF chars = <<>> THEN <<>>
    ELSE (IF Head(chars) \in {"\"", "\\"} THEN <<"\\", Head(chars)>> ELSE <<Head(chars)>>)
           \o Quote(Tail(chars))

Quoted(chars) == <<"\"">> \o Quote(chars) \o <<"\"">>

Indent(n) == [i \in 1..n |-> " "]

RECURSIVE Stringify(_, _)
RECURSIVE StringifyItems(_, _, _)
RECURSIVE StringifyFields(_, _, _)
\* the items of an array, one per line at indentation n
StringifyItems(items, i, n) ==
    IF i > Len(items) THEN <<>>
    ELSE (IF i > 1 THEN <<",", "\n">> ELSE <<>>) \o Indent(n)
           \o (IF Omitted(items[i]) THEN Chars("null") ELSE Stringify(items[i], n))
           \o StringifyItems(items, i + 1, n)

\* the properties of an object, one per line at indentation n
StringifyFields(fields, i, n) ==
    IF i > Len(fields) THEN <<>>
    ELSE (IF i > 1 THEN <<",", "\n">> ELSE <<>>) \o Indent(n)
           \o Quoted(fields[i][1]) \o <<":", " ">> \o Stringify(fields[i][2], n)
           \o StringifyFields(fields, i + 1, n)

\* the text of a document written at indentation n
Stringify(doc, n) ==
    CASE doc.kind = "array" ->
            IF doc.items = <<>> THEN <<"[", "]">>
            ELSE <<"[", "\n">> \o StringifyItems(doc.items, 1, n + 2)
                   \o <<"\n">> \o Indent(n) \o <<"]">>
      [] doc.kind = "object" ->
            LET Kept(f) == ~Omitted(f[2])
                kept == SelectSeq(doc.fields, Kept)
            IN IF kept = <<>> THEN <<"{", "}">>
               ELSE <<"{", "\n">> \o StringifyFields(kept, 1, n + 2)
                      \o <<"\n">> \o Indent(n) \o <<"}">>
      [] doc.v.t = "string" -> Quoted(doc.v.s)
      [] doc.v.t = "number" /\ doc.v.q = "nan" -> Chars("null")
      [] OTHER -> ToStringChars(<<>>, doc.v)    \* numbers, true, false, null

\* JSON.stringify(value, null, 2); undefined gives undefined, which
\* TextEncoder.encode takes as no text
JSON_stringify(doc) == IF Omitted(doc) THEN <<>> ELSE Stringify(doc, 0)

Parsed(doc, at) == [ok |-> TRUE, doc |-> doc, at |-> at]
SyntaxError == [ok |-> FALSE, doc |-> Prim(Undefined), at |-> 0]

IsWhitespace(c) == c \in {" ", "\n", "\t", "\r"}

RECURSIVE SkipWhitespace(_, _)
SkipWhitespace(t, i) ==
    IF i <= Len(t) /\ IsWhitespace(t[i]) THEN SkipWhitespace(t, i + 1) ELSE i

RECURSIVE DigitsEnd(_, _)
\* the index after the run of digits that starts at i
DigitsEnd(t, i) == IF i <= Len(t) /\ IsDigit(t[i]) THEN DigitsEnd(t, i + 1) ELSE i

\* the wide integer of any integer of the model
WideOf(v) == Num(v \div 65536, v % 65536)

\* a JSON number at i: -? digits (. digits)?; of the fractions only .5 is
\* drawn, and no exponent
ParseNumber(t, i) ==
    LET negative == t[i] = "-"
        from == IF negative THEN i + 1 ELSE i
        to == IF from <= Len(t) /\ t[from] = "0" THEN from + 1 ELSE DigitsEnd(t, from)
        whole == DecimalValue(SubSeq(t, from, to - 1))
        half == to + 1 <= Len(t) /\ t[to] = "." /\ t[to + 1] = "5"
                  /\ DigitsEnd(t, to + 2) = to + 2
    IN IF to = from THEN SyntaxError
       ELSE IF half
       THEN Parsed(Prim(Val("number", WideOf(IF negative THEN -whole - 1 ELSE whole),
                            "frac", <<>>)), to + 2)
       ELSE IF to <= Len(t) /\ t[to] = "." THEN SyntaxError
       ELSE Parsed(Prim(Number(WideOf(IF negative THEN -whole ELSE whole))), to)

RECURSIVE ParseChars(_, _, _)
\* the characters of a JSON string whose opening quote is before i
ParseChars(t, i, chars) ==
    IF i > Len(t) \/ t[i] = "\n" THEN SyntaxError
    ELSE IF t[i] = "\"" THEN Parsed(Prim(String(chars)), i + 1)
    ELSE IF t[i] = "\\"
    THEN IF i + 1 <= Len(t) /\ t[i + 1] \in {"\"", "\\", "/"}
         THEN ParseChars(t, i + 2, Append(chars, t[i + 1]))
         ELSE SyntaxError
    ELSE ParseChars(t, i + 1, Append(chars, t[i]))

\* whether the literal word stands in t at i
WordAt(t, i, word) == i + Len(word) - 1 <= Len(t) /\ SubSeq(t, i, i + Len(word) - 1) = word

RECURSIVE ParseValue(_, _)
RECURSIVE ParseItems(_, _, _)
RECURSIVE ParseMembers(_, _, _)
\* the items of an array after [ or a comma, up to ]
ParseItems(t, from, items) ==
    LET item == ParseValue(t, from)
        i == SkipWhitespace(t, item.at)
    IN IF ~item.ok \/ i > Len(t) THEN SyntaxError
       ELSE IF t[i] = "," THEN ParseItems(t, i + 1, Append(items, item.doc))
       ELSE IF t[i] = "]" THEN Parsed(Arr(Append(items, item.doc)), i + 1)
       ELSE SyntaxError

\* the members of an object after { or a comma, up to }
ParseMembers(t, from, fields) ==
    LET k == SkipWhitespace(t, from)
        key == IF k <= Len(t) /\ t[k] = "\"" THEN ParseChars(t, k + 1, <<>>) ELSE SyntaxError
        colon == SkipWhitespace(t, key.at)
        value == IF key.ok /\ colon <= Len(t) /\ t[colon] = ":"
                 THEN ParseValue(t, colon + 1) ELSE SyntaxError
        i == SkipWhitespace(t, value.at)
    IN IF ~value.ok \/ i > Len(t) THEN SyntaxError
       ELSE LET more == SetField(fields, key.doc.v.s, value.doc)
            IN IF t[i] = "," THEN ParseMembers(t, i + 1, more)
               ELSE IF t[i] = "}" THEN Parsed(Obj(more), i + 1)
               ELSE SyntaxError

\* the JSON value that starts at or after from
ParseValue(t, from) ==
    LET i == SkipWhitespace(t, from)
    IN IF i > Len(t) THEN SyntaxError
       ELSE CASE t[i] = "{" ->
                    LET j == SkipWhitespace(t, i + 1)
                    IN IF j <= Len(t) /\ t[j] = "}" THEN Parsed(Obj(<<>>), j + 1)
                       ELSE ParseMembers(t, j, <<>>)
              [] t[i] = "[" ->
                    LET j == SkipWhitespace(t, i + 1)
                    IN IF j <= Len(t) /\ t[j] = "]" THEN Parsed(Arr(<<>>), j + 1)
                       ELSE ParseItems(t, j, <<>>)
              [] t[i] = "\"" -> ParseChars(t, i + 1, <<>>)
              [] t[i] = "-" \/ IsDigit(t[i]) -> ParseNumber(t, i)
              [] WordAt(t, i, Chars("true")) -> Parsed(Prim(Bool(TRUE)), i + 4)
              [] WordAt(t, i, Chars("false")) -> Parsed(Prim(Bool(FALSE)), i + 5)
              [] WordAt(t, i, Chars("null")) -> Parsed(Prim(Null), i + 4)
              [] OTHER -> SyntaxError

\* JSON.parse(text): [ok, doc]; ok is false where it throws a SyntaxError
JSON_parse(t) ==
    LET r == ParseValue(t, 1)
    IN IF r.ok /\ SkipWhitespace(t, r.at) = Len(t) + 1 THEN r ELSE SyntaxError

----------------------------------------------------------------------------
(* Tar(files) of the tarts library: a ustar stream.  Of a header the name, *)
(* the size, the type flag and the magic are written here; the fields      *)
(* parseTar does not read (mode, owner, time, checksum) are left zero.     *)
(* Names are at most 100 bytes long.                                       *)

RECURSIVE OctalText(_, _)
\* the octal digits of v, zero-padded to width
OctalText(v, width) ==
    IF width = 0 THEN <<>> ELSE Append(OctalText(v \div 8, width - 1), Digits[(v % 8) + 1])

TarHeader(name, size) ==
    LET HeaderByte(bytes, offset, at) ==
            IF at - offset \in 0..(Len(bytes) - 1) THEN bytes[at - offset + 1] ELSE 0
        nameBytes == TextEncode(name)
        sizeBytes == TextEncode(OctalText(size, TAR_HEADER.size.size - 1))
        magic == TextEncode(<<"u", "s", "t", "a", "r">>)
    IN [i \in 1..BLOCK_SIZE |->
          IF i - 1 = TAR_HEADER.typeflag.offset THEN 48
          ELSE HeaderByte(nameBytes, TAR_HEADER.name.offset, i - 1)
                 + HeaderByte(sizeBytes, TAR_HEADER.size.offset, i - 1)
                 + HeaderByte(magic, 257, i - 1)]

\* the blocks a content of the given length takes
Blocks(size) == (size + BLOCK_SIZE - 1) \div BLOCK_SIZE

RECURSIVE TarFiles(_)
TarFiles(files) ==
    IF files = <<>> THEN <<>>
    ELSE LET f == Head(files)
         IN TarHeader(f.name, Len(f.content)) \o f.content
              \o Zeros(Blocks(Len(f.content)) * BLOCK_SIZE - Len(f.content))
              \o TarFiles(Tail(files))

\* Tar(files): every file, then two zero blocks
Tar(files) == TarFiles(files) \o Zeros(2 * BLOCK_SIZE)

----------------------------------------------------------------------------
(* createArchive, parseTar, readArchive *)

RECURSIVE ArchiveFiles(_, _)
\* the two files pushed for every recording
ArchiveFiles(recordings, dirName) ==
    IF recordings = <<>> THEN <<>>
    ELSE LET recording == Head(recordings)
             metaData == TextEncode(JSON_stringify(recording.metadata))
         IN <<[name |-> dirName \o <<"/">> \o recording.name \o SigmfMeta,
               content |-> metaData],
              [name |-> dirName \o <<"/">> \o recording.name \o SigmfData,
               content |-> recording.data]>>
              \o ArchiveFiles(Tail(recordings), dirName)

RECURSIVE UnpaddedFiles(_)
\* header and content of every file, the content not padded to a block
UnpaddedFiles(files) ==
    IF files = <<>> THEN <<>>
    ELSE TarHeader(Head(files).name, Len(Head(files).content)) \o Head(files).content
           \o UnpaddedFiles(Tail(files))

\* createArchive over a writer that does not pad the contents
createArchiveUnpadded(recordings, archiveName) ==
    LET dirName == IF CanRead(archiveName) THEN archiveName.s
                   ELSE IF recordings # <<>> THEN recordings[1].name
                   ELSE <<"r", "e", "c", "o", "r", "d", "i", "n", "g">>
    IN UnpaddedFiles(ArchiveFiles(recordings, dirName)) \o Zeros(2 * BLOCK_SIZE)

\* createArchive(recordings, archiveName): the bytes of the Blob
createArchive(recordings, archiveName) ==
    LET dirName == IF CanRead(archiveName) THEN archiveName.s
                   ELSE IF recordings # <<>> THEN recordings[1].name
                   ELSE <<"r", "e", "c", "o", "r", "d", "i", "n", "g">>
    IN Tar(ArchiveFiles(recordings, dirName))

\* decodeString(bytes): the ASCII text up to the first NUL
decodeString(bytes) ==
    LET nullIndex == IndexOf(bytes, 0, 1)
        decoded == {TextDecode(slice) :
                      slice \in {IF nullIndex >= 1 THEN SubSeq(bytes, 1, nullIndex - 1)
                                 ELSE bytes}}
    IN CHOOSE text \in decoded : TRUE

RECURSIVE OctalValue(_, _, _)
\* parseInt(str, 8) from index i on: the leading octal digits
OctalValue(str, i, value) ==
    IF i <= Len(str) /\ str[i] \in {"0", "1", "2", "3", "4", "5", "6", "7"}
    THEN OctalValue(str, i + 1, value * 8 + (CHOOSE d \in 0..7 : Digits[d + 1] = str[i]))
    ELSE value

\* decodeOctal(bytes): parseInt(str, 8) of the trimmed text, 0 for an empty
\* one: an optional sign, then the leading octal digits.  -1 stands for the
\* NaN parseInt gives when no digit follows; like every negative size it
\* is not > 0, the only test made on a size.
decodeOctal(bytes) ==
    LET parseInt8(text) ==
            LET from == SkipWhitespace(text, 1)
                signed == from <= Len(text) /\ text[from] \in {"+", "-"}
                at == IF signed THEN from + 1 ELSE from
            IN IF from > Len(text) THEN 0
               ELSE IF at > Len(text)
                       \/ text[at] \notin {"0", "1", "2", "3", "4", "5", "6", "7"}
               THEN -1
               ELSE IF text[from] = "-" THEN 0 - OctalValue(text, at, 0)
               ELSE OctalValue(text, at, 0)
    IN CHOOSE size \in {parseInt8(str) : str \in {decodeString(bytes)}} : TRUE

TarEntry(name, size, data, isFile) ==
    [name |-> name, size |-> size, data |-> data, isFile |-> isFile]

RECURSIVE parseTarFromNameOnly(_, _, _)
\* a parse loop that takes the name field alone as the path
parseTarFromNameOnly(view, offset, entries) ==
    IF offset + BLOCK_SIZE > Len(view) THEN entries
    ELSE LET header == Slice(view, offset, offset + BLOCK_SIZE)
             FieldBytes(f) == Slice(header, f.offset, f.offset + f.size)
             typeflag == header[TAR_HEADER.typeflag.offset + 1]
             prefix == decodeString(FieldBytes(TAR_HEADER.prefix))
             name == decodeString(FieldBytes(TAR_HEADER.name))
             size == decodeOctal(FieldBytes(TAR_HEADER.size))
             isFile == typeflag = 48 \/ typeflag = 0
             dataAt == offset + BLOCK_SIZE
         IN IF \A i \in 1..BLOCK_SIZE : header[i] = 0 THEN entries
            ELSE IF size > 0
            THEN parseTarFromNameOnly(view, dataAt + Blocks(size) * BLOCK_SIZE,
                              Append(entries,
                                     TarEntry(name, size, Slice(view, dataAt, dataAt + size),
                                              isFile)))
            ELSE parseTarFromNameOnly(view, dataAt,
                              IF isFile THEN Append(entries, TarEntry(name, 0, <<>>, isFile))
                              ELSE entries)

RECURSIVE parseTarFrom(_, _, _)
\* the while loop of parseTar from offset on
parseTarFrom(view, offset, entries) ==
    IF offset + BLOCK_SIZE > Len(view) THEN entries
    ELSE LET header == Slice(view, offset, offset + BLOCK_SIZE)
             FieldBytes(f) == Slice(header, f.offset, f.offset + f.size)
             typeflag == header[TAR_HEADER.typeflag.offset + 1]
             prefix == decodeString(FieldBytes(TAR_HEADER.prefix))
             name == IF prefix # <<>>
                     THEN prefix \o <<"/">> \o decodeString(FieldBytes(TAR_HEADER.name))
                     ELSE decodeString(FieldBytes(TAR_HEADER.name))
             size == decodeOctal(FieldBytes(TAR_HEADER.size))
             isFile == typeflag = 48 \/ typeflag = 0
             dataAt == offset + BLOCK_SIZE
         IN IF \A i \in 1..BLOCK_SIZE : header[i] = 0 THEN entries
            ELSE IF size > 0
            THEN parseTarFrom(view, dataAt + Blocks(size) * BLOCK_SIZE,
                              Append(entries,
                                     TarEntry(name, size, Slice(view, dataAt, dataAt + size),
                                              isFile)))
            ELSE parseTarFrom(view, dataAt,
                              IF isFile THEN Append(entries, TarEntry(name, 0, <<>>, isFile))
                              ELSE entries)

parseTar(buffer) == parseTarFrom(buffer, 0, <<>>)

\* entry.name.replace(/^[^/]+\//, '')
RemoveLeadingDirectory(name) ==
    LET slash == IndexOf(name, "/", 1)
    IN IF slash >= 2 THEN SubSeq(name, slash + 1, Len(name)) ELSE name

\* text.slice(0, -n)
DropLast(text, n) == SubSeq(text, 1, Len(text) - n)

RECURSIVE GroupFilesKeepingFirst(_, _, _, _)
\* a grouping that keeps the first file of a kind and base name
GroupFilesKeepingFirst(tarEntries, i, metaFiles, dataFiles) ==
    IF i > Len(tarEntries) THEN [metaFiles |-> metaFiles, dataFiles |-> dataFiles]
    ELSE LET entry == tarEntries[i]
             name == RemoveLeadingDirectory(entry.name)
             KeepField(fields, key, value) ==
                 IF HasField(fields, key) THEN fields ELSE Append(fields, <<key, value>>)
         IN IF ~entry.isFile THEN GroupFilesKeepingFirst(tarEntries, i + 1, metaFiles, dataFiles)
            ELSE IF EndsWith(name, SigmfMeta)
            THEN GroupFilesKeepingFirst(tarEntries, i + 1,
                            KeepField(metaFiles, DropLast(name, Len(SigmfMeta)), entry.data),
                            dataFiles)
            ELSE IF EndsWith(name, SigmfData)
            THEN GroupFilesKeepingFirst(tarEntries, i + 1, metaFiles,
                            KeepField(dataFiles, DropLast(name, Len(SigmfData)), entry.data))
            ELSE GroupFilesKeepingFirst(tarEntries, i + 1, metaFiles, dataFiles)

RECURSIVE GroupFiles(_, _, _, _)
\* the first loop of readArchive: [metaFiles, dataFiles], Maps kept as
\* <<key, value>> pairs in insertion order
GroupFiles(tarEntries, i, metaFiles, dataFiles) ==
    IF i > Len(tarEntries) THEN [metaFiles |-> metaFiles, dataFiles |-> dataFiles]
    ELSE LET entry == tarEntries[i]
             name == RemoveLeadingDirectory(entry.name)
         IN IF ~entry.isFile THEN GroupFiles(tarEntries, i + 1, metaFiles, dataFiles)
            ELSE IF EndsWith(name, SigmfMeta)
            THEN GroupFiles(tarEntries, i + 1,
                            SetField(metaFiles, DropLast(name, Len(SigmfMeta)), entry.data),
                            dataFiles)
            ELSE IF EndsWith(name, SigmfData)
            THEN GroupFiles(tarEntries, i + 1, metaFiles,
                            SetField(dataFiles, DropLast(name, Len(SigmfData)), entry.data))
            ELSE GroupFiles(tarEntries, i + 1, metaFiles, dataFiles)

ArchiveEntry(name, metadata, data) == [name |-> name, metadata |-> metadata, data |-> data]

NoRead == [called |-> FALSE, threw |-> FALSE, entries |-> <<>>]
ReadThrew == [called |-> TRUE, threw |-> TRUE, entries |-> <<>>]

RECURSIVE MatchFilesByPosition(_, _, _, _)
\* a matching that takes the i-th data file for the i-th metadata file
MatchFilesByPosition(metaFiles, dataFiles, i, results) ==
    IF i > Len(metaFiles) THEN [called |-> TRUE, threw |-> FALSE, entries |-> results]
    ELSE LET baseName == metaFiles[i][1]
             metadata == JSON_parse(TextDecode(metaFiles[i][2]))
             data == IF i <= Len(dataFiles) THEN dataFiles[i][2] ELSE <<>>
         IN IF ~metadata.ok THEN ReadThrew
            ELSE MatchFilesByPosition(metaFiles, dataFiles, i + 1,
                            Append(results, ArchiveEntry(baseName, metadata.doc, data)))

RECURSIVE MatchFiles(_, _, _, _)
\* the second loop of readArchive; JSON.parse may throw
MatchFiles(metaFiles, dataFiles, i, results) ==
    IF i > Len(metaFiles) THEN [called |-> TRUE, threw |-> FALSE, entries |-> results]
    ELSE LET baseName == metaFiles[i][1]
             metadata == JSON_parse(TextDecode(metaFiles[i][2]))
             data == IF HasField(dataFiles, baseName) THEN FieldOf(dataFiles, baseName)
                     ELSE <<>>
         IN IF ~metadata.ok THEN ReadThrew
            ELSE MatchFiles(metaFiles, dataFiles, i + 1,
                            Append(results, ArchiveEntry(baseName, metadata.doc, data)))

\* readArchive(source): [called, threw, entries]
readArchive(source) ==
    LET files == GroupFiles(parseTar(source), 1, <<>>, <<>>)
    IN MatchFiles(files.metaFiles, files.dataFiles, 1, <<>>)

----------------------------------------------------------------------------
(* The archive scenario: an archive is created, possibly damaged on the    *)
(* way (cut short, or a metadata payload overwritten), and read back with  *)
(* readArchive and with streamArchive.                                     *)

K_global == <<"g", "l", "o", "b", "a", "l">>
K_captures == <<"c", "a", "p", "t", "u", "r", "e", "s">>
K_annotations == <<"a", "n", "n", "o", "t", "a", "t", "i", "o", "n", "s">>
K_datatype == <<"c", "o", "r", "e", ":", "d", "a", "t", "a", "t", "y", "p", "e">>
K_version == <<"c", "o", "r", "e", ":", "v", "e", "r", "s", "i", "o", "n">>
K_sample_rate ==
    <<"c", "o", "r", "e", ":", "s", "a", "m", "p", "l", "e", "_", "r", "a", "t", "e">>
K_sample_start ==
    <<"c", "o", "r", "e", ":", "s", "a", "m", "p", "l", "e", "_", "s", "t", "a", "r", "t">>
K_frequency == <<"c", "o", "r", "e", ":", "f", "r", "e", "q", "u", "e", "n", "c", "y">>
K_metadata_only ==
    <<"c", "o", "r", "e", ":", "m", "e", "t", "a", "d", "a", "t", "a", "_", "o", "n", "l", "y">>

\* the metadata documents archived
MetadataOnlyDoc ==
    Obj(<<<<K_global, Obj(<<<<K_datatype, Prim(String(T_cf32_le))>>,
                            <<K_version, Prim(String(T_1_0_0))>>,
                            <<K_metadata_only, Prim(Bool(TRUE))>>>>)>>,
          <<K_captures, Arr(<<>>)>>,
          <<K_annotations, Arr(<<>>)>>>>)

CapturedDoc ==
    Obj(<<<<K_global, Obj(<<<<K_datatype, Prim(String(T_cf32_le))>>,
                            <<K_version, Prim(String(T_1_0_0))>>,
                            <<K_sample_rate, Prim(Integer(48000))>>>>)>>,
          <<K_captures, Arr(<<Obj(<<<<K_sample_start, Prim(Integer(0))>>,
                                    <<K_frequency, Prim(Frac(-3))>>>>)>>)>>,
          <<K_annotations, Arr(<<>>)>>>>)

\* most recordings given to one createArchive call
MaxEntries == 2

ArchiveOption(name, metadata, data) == [name |-> name, metadata |-> metadata, data |-> data]

\* the recordings archived: metadata-only ones (no data bytes) and one with
\* three data bytes
ArchiveOptions ==
    {ArchiveOption(<<"a">>, MetadataOnlyDoc, <<>>),
     ArchiveOption(<<"a">>, CapturedDoc, <<1, 2, 255>>),
     ArchiveOption(<<"b">>, CapturedDoc, <<1, 2, 255>>),
     ArchiveOption(<<"a", "/", "b">>, MetadataOnlyDoc, <<>>)}

\* the lists of recordings with pairwise distinct names
ArchiveInputs ==
    {s \in SeqsUpTo(ArchiveOptions, MaxEntries) :
        \A i, j \in 1..Len(s) : i # j => s[i].name # s[j].name}

\* the archiveName argument, when given
ArchiveDirNames ==
    {Undefined, String(<<>>), String(<<"d">>), String(<<"d", "/", "e">>)}

\* lengths an archive of len bytes is cut to: at, just after and just
\* before every block boundary
CutLengths(len) ==
    {n \in 0..(len - 1) : n % BLOCK_SIZE \in {0, 1, BLOCK_SIZE - 1}}

\* bytes written over the first byte of the first payload: x and [
OverwritingBytes == {120, 91}

NoInput == [recordings |-> <<>>, archiveName |-> Undefined]

ArcIdle ==
    /\ aPc = "none"
    /\ aInput = NoInput
    /\ aBlob = <<>>
    /\ aRead = NoRead
    /\ aStreamPc = "idle"
    /\ aPending = <<>>
    /\ aYielded = <<>>

\* createArchive(recordings, archiveName): the arguments are drawn by the
\* call, or were drawn before it (aPc = "drawn")
CreateArchive ==
    /\ aPc \in {"none", "drawn"}
    /\ \E recordings \in (IF aPc = "none" THEN ArchiveInputs ELSE {aInput.recordings}),
          archiveName \in (IF aPc = "none" THEN ArchiveDirNames ELSE {aInput.archiveName}) :
          /\ aInput' = [recordings |-> recordings, archiveName |-> archiveName]
          /\ aBlob' = createArchive(recordings, archiveName)
    /\ aPc' = IF aPc = "none" THEN "whole" ELSE "built"
    /\ UNCHANGED <<aRead, aStreamPc, aPending, aYielded, notArc>>

\* the source handed to the reader ends early
Truncate ==
    /\ aPc = "whole"
    /\ aRead = NoRead /\ aStreamPc = "idle"
    /\ \E n \in CutLengths(Len(aBlob)) : aBlob' = SubSeq(aBlob, 1, n)
    /\ aPc' = "truncated"
    /\ UNCHANGED <<aInput, aRead, aStreamPc, aPending, aYielded, notArc>>

\* the first payload of the source handed to the reader (the first
\* recording's .sigmf-meta) is overwritten at its first byte
Overwrite ==
    /\ aPc = "whole"
    /\ aRead = NoRead /\ aStreamPc = "idle"
    /\ aInput.recordings # <<>>
    /\ \E b \in OverwritingBytes : aBlob' = [aBlob EXCEPT ![BLOCK_SIZE + 1] = b]
    /\ aPc' = "overwritten"
    /\ UNCHANGED <<aInput, aRead, aStreamPc, aPending, aYielded, notArc>>

\* await readArchive(source)
ReadArchive ==
    /\ aPc \notin {"none", "drawn"}
    /\ aRead = NoRead
    /\ aRead' = readArchive(aBlob)
    /\ UNCHANGED <<aPc, aInput, aBlob, aStreamPc, aPending, aYielded, notArc>>

\* streamArchive(source), first next(): readArchive, then the first yield
StreamArchiveStart ==
    /\ aPc \notin {"none", "drawn"}
    /\ aStreamPc = "idle"
    /\ LET entries == readArchive(aBlob)
       IN IF entries.threw
          THEN aStreamPc' = "thrown" /\ UNCHANGED <<aPending, aYielded>>
          ELSE IF entries.entries = <<>>
          THEN aStreamPc' = "done" /\ UNCHANGED <<aPending, aYielded>>
          ELSE /\ aStreamPc' = "yielded"
               /\ aYielded' = <<Head(entries.entries)>>
               /\ aPending' = Tail(entries.entries)
    /\ UNCHANGED <<aPc, aInput, aBlob, aRead, notArc>>

\* streamArchive(source), a later next(): the next yield, or the end
StreamArchiveNext ==
    /\ aStreamPc = "yielded"
    /\ IF aPending = <<>>
       THEN aStreamPc' = "done" /\ UNCHANGED <<aPending, aYielded>>
       ELSE /\ aYielded' = Append(aYielded, Head(aPending))
            /\ aPending' = Tail(aPending)
            /\ UNCHANGED aStreamPc
    /\ UNCHANGED <<aPc, aInput, aBlob, aRead, notArc>>

ArcNext ==
    \/ CreateArchive
    \/ Truncate
    \/ Overwrite
    \/ ReadArchive
    \/ StreamArchiveStart
    \/ StreamArchiveNext

----------------------------------------------------------------------------
(* The parseDatatype scenario: a token is drawn, then parsed.  The tokens  *)
(* drawn are all those of the grammar and near misses of each group.       *)

ParseTokens ==
    {Token(cr, ty, en) :
        cr \in {"c", "r", "x", ""},
        ty \in {"f32", "f64", "i32", "i16", "u32", "u16", "i8", "u8", "i64", "u64", "f16", ""},
        en \in {"", "_le", "_be", "_xx"}}

ParseIdle ==
    /\ pPc = "idle"
    /\ pTok = Token("", "", "")
    /\ pInfo = NoInfo

ParseInit ==
    /\ pPc = "drawn"
    /\ pTok \in ParseTokens
    /\ pInfo = NoInfo

\* parseDatatype(datatype)
ParseDatatypeCall ==
    /\ pPc = "drawn"
    /\ pInfo' = parseDatatype(pTok)
    /\ pPc' = "parsed"
    /\ UNCHANGED <<pTok, notParse>>

ParseNext == ParseDatatypeCall

----------------------------------------------------------------------------
(* The fromJSON scenario: a parsed document is given to fromJSON *)

\* the values of data.global
LoadGlobals ==
    {Prim(Undefined), Prim(Null), Prim(String(<<"g">>)), Prim(Integer(0)),
     Obj(<<>>),
     Obj(<<CoreField("datatype", Prim(String(T_cf32_le)))>>),
     Obj(<<CoreField("version", Prim(String(T_1_0_0)))>>),
     GlobalDoc,
     Obj(<<CoreField("version", Prim(String(T_1_0_0))),
           CoreField("datatype", Prim(String(<<"b", "o", "g", "u", "s">>))),
           CoreField("sample_rate", Prim(Integer(48000)))>>)}

\* the values of data.captures and data.annotations
LoadEntries ==
    {Prim(Undefined), Prim(Null), Prim(String(<<"a", "b">>)), Obj(<<>>), Arr(<<>>),
     Arr(<<EntryDoc(Integer(500)), EntryDoc(Integer(0))>>),
     Arr(<<Prim(Null), EntryDoc(Integer(1000)), EntryDoc(Integer(0))>>)}

\* a document with the fields that are not undefined
DocumentOf(global, captures, annotations) ==
    Obj((IF global = Prim(Undefined) THEN <<>> ELSE <<Field("global", global)>>)
        \o (IF captures = Prim(Undefined) THEN <<>> ELSE <<Field("captures", captures)>>)
        \o (IF annotations = Prim(Undefined) THEN <<>>
            ELSE <<Field("annotations", annotations)>>))

\* what JSON.parse(input) gave, or the object given
LoadInputs ==
    {Prim(Null)}
    \cup {DocumentOf(g, c, a) : g \in LoadGlobals, c \in LoadEntries, a \in LoadEntries}

\* no fromJSON call made
NoLoad == [called |-> FALSE, threw |-> FALSE, error |-> "",
           global |-> Prim(Undefined), captures |-> Prim(Undefined),
           annotations |-> Prim(Undefined)]

LoadIdle ==
    /\ lPc = "idle"
    /\ lInput = Prim(Undefined)
    /\ lResult = NoLoad

LoadInit ==
    /\ lPc = "given"
    /\ lInput \in LoadInputs
    /\ lResult = NoLoad

\* SigMFRecording.fromJSON(input): the error thrown, or the documents of the
\* three fields of the recording returned
FromJSONCall ==
    /\ lPc = "given"
    /\ LET data == Alloc(<<>>, lInput)
           made == fromJSON(data.heap, data.val)
       IN lResult' =
             IF made.threw
             THEN [called |-> TRUE, threw |-> TRUE, error |-> made.error,
                   global |-> Prim(Undefined), captures |-> Prim(Undefined),
                   annotations |-> Prim(Undefined)]
             ELSE [called |-> TRUE, threw |-> FALSE, error |-> "",
                   global |-> DocumentAt(made.heap, made.global),
                   captures |-> DocumentAt(made.heap, made.captures),
                   annotations |-> DocumentAt(made.heap, made.annotations)]
    /\ lPc' = "loaded"
    /\ UNCHANGED <<lInput, notLoad>>

LoadNext == FromJSONCall

----------------------------------------------------------------------------
(* The components added for the registry, the parse loop and the complex   *)
(* writer, at rest                                                         *)

\* const extensionRegistry = new Map()
RegIdle == extensionRegistry = <<>>

TarIdle ==
    /\ tPc = "none"
    /\ tView = <<>>
    /\ tOffset = 0
    /\ tEntries = <<>>

NoWritten == [called |-> FALSE, threw |-> FALSE, error |-> "", bytes |-> <<>>]

PairIdle ==
    /\ wPc = "idle"
    /\ wTok = Token("", "", "")
    /\ wPairs = <<>>
    /\ wWritten = NoWritten

OthersIdle == RegIdle /\ TarIdle /\ PairIdle

----------------------------------------------------------------------------
(* The codec scenario: draw the inputs, apply readSamples and writeSamples *)

\* tokens the codec scenario draws from: every integer width and signedness,
\* both byte orders, real and complex, a float, and the two regex-valid
\* oddities (a 16-bit token without suffix, an 8-bit token with one)
CodecTokens ==
    {Token("r", "u8", ""), Token("c", "u8", ""), Token("r", "i8", ""), Token("c", "i8", ""),
     Token("r", "i16", "_le"), Token("c", "i16", "_be"), Token("r", "u16", "_be"),
     Token("c", "u16", "_le"), Token("r", "i32", "_le"), Token("r", "i32", "_be"),
     Token("c", "i32", "_le"), Token("r", "u32", "_be"), Token("c", "u32", "_le"),
     Token("r", "f32", "_le"), Token("r", "i16", ""), Token("r", "u8", "_le")}

\* integer sample values: 0, 1, -1, and the edges of every integer type
SampleVals ==
    {Num(0, 0), Num(0, 1), Num(-1, 65535),
     Num(0, 127), Num(0, 128), Num(-1, 65408), Num(-1, 65407), Num(0, 255), Num(0, 256),
     Num(0, 32767), Num(0, 32768), Num(-1, 32768), Num(-1, 32767), Num(0, 65535),
     Num(1, 0), Num(32767, 65535), Num(32768, 0), Num(-32768, 0), Num(-32769, 65535),
     Num(65535, 65535), Num(65536, 0)}

CodecIdle ==
    /\ cPc = "idle"
    /\ cTok = Token("r", "u8", "")
    /\ cBuf = <<>>
    /\ cOpt = DefaultOptions
    /\ cX = <<>>
    /\ cRead = NoResult
    /\ cWritten = NoBytes
    /\ cRound = NoResult

CodecInit ==
    /\ cPc = "init"
    /\ cTok \in CodecTokens
    /\ \/ /\ cBuf \in SeqsUpTo(ByteVals, MaxBufLen)
          /\ cOpt \in {Options(o, c) : o \in 0..MaxOffset,
                                       c \in {NoCount} \cup {Count(n) : n \in 0..MaxCount}}
          /\ cX = <<>>
       \/ /\ cBuf = <<>>
          /\ cOpt = DefaultOptions
          /\ cX \in SeqsUpTo(SampleVals, MaxSamplesLen)
          /\ parseDatatype(cTok).format = "int"
    /\ cRead = NoResult
    /\ cWritten = NoBytes
    /\ cRound = NoResult

ReadSamplesCall ==
    /\ cPc = "init"
    /\ cRead' = readSamples(cBuf, cTok, cOpt)
    /\ cPc' = "read"
    /\ UNCHANGED <<cTok, cBuf, cOpt, cX, cWritten, cRound, notCodec>>

WriteSamplesCall ==
    /\ cPc = "init"
    /\ parseDatatype(cTok).format = "int"
    /\ cWritten' = writeSamples(cX, cTok)
    /\ cPc' = "written"
    /\ UNCHANGED <<cTok, cBuf, cOpt, cX, cRead, cRound, notCodec>>

ReadBackCall ==
    /\ cPc = "written"
    /\ ~cWritten.threw
    /\ cRound' = readSamples(cWritten.bytes, cTok, DefaultOptions)
    /\ cPc' = "readback"
    /\ UNCHANGED <<cTok, cBuf, cOpt, cX, cRead, cWritten, notCodec>>

CodecNext == ReadSamplesCall \/ WriteSamplesCall \/ ReadBackCall

SpecCodecInit == CodecInit /\ StreamIdle /\ BlobIdle /\ RecInit /\ ArcIdle /\ ParseIdle /\ LoadIdle /\ OthersIdle

SpecCodec == SpecCodecInit /\ [][CodecNext]_vars

----------------------------------------------------------------------------
(* Claims about the sample codec *)

\* no whole sample lies at the sample offset of the options
NoWholeSampleAt(buffer, tok, options) ==
    LET bps == parseDatatype(tok).bytesPerSample
    IN (options.offset + 1) * bps > Len(buffer)

\* C3: for every valid datatype token, every buffer and every sample offset
\* >= 0, also one whose byte position lies beyond the end of the buffer,
\* readSamples does not throw; when no whole sample is available at the offset
\* it returns sampleCount 0 and an empty sample array.
C3_ReadSamplesNeverThrows ==
    (cPc = "read" /\ DATATYPE_PATTERN(cTok)) =>
        /\ ~cRead.threw
        /\ NoWholeSampleAt(cBuf, cTok, cOpt) =>
              (cRead.sampleCount = 0 /\ cRead.values = <<>>)

\* the value lies in the range of the integer component type of info
InRange(value, info) ==
    CASE info.bitsPerComponent = 8 /\ info.signed ->
            \/ value.hi = 0 /\ value.lo <= 127
            \/ value.hi = -1 /\ value.lo >= 65536 - 128
      [] info.bitsPerComponent = 8 /\ ~info.signed -> value.hi = 0 /\ value.lo <= 255
      [] info.bitsPerComponent = 16 /\ info.signed ->
            \/ value.hi = 0 /\ value.lo <= 32767
            \/ value.hi = -1 /\ value.lo >= 32768
      [] info.bitsPerComponent = 16 /\ ~info.signed -> value.hi = 0
      [] info.bitsPerComponent = 32 /\ info.signed -> value.hi >= -32768 /\ value.hi <= 32767
      [] info.bitsPerComponent = 32 /\ ~info.signed -> value.hi >= 0 /\ value.hi <= 65535
      [] OTHER -> FALSE

\* x has a shape compatible with the token: even length for complex tokens
CompatibleShape(x, info) == info.isComplex => Len(x) % 2 = 0

RoundTripExact ==
    LET info == parseDatatype(cTok)
    IN /\ ~cRound.threw
       /\ cRound.values = cX
       /\ cRound.sampleCount = (IF info.isComplex THEN Len(cX) \div 2 ELSE Len(cX))

\* C4 as stated: for every supported integer token and ANY integer-valued
\* sample array of compatible shape, readSamples(writeSamples(x, t), t)
\* returns exactly x, with sampleCount the number of samples written.
C4_RoundTripAnyInteger ==
    (cPc = "readback" /\ CompatibleShape(cX, parseDatatype(cTok))) => RoundTripExact

\* C4 as amended: the round trip is exact for every integer-valued sample
\* array of compatible shape whose values all lie within the range of the
\* token's component type (writeValue stores integers modulo 2^bits).
C4_RoundTripInRange ==
    (/\ cPc = "readback"
     /\ CompatibleShape(cX, parseDatatype(cTok))
     /\ \A j \in 1..Len(cX) : InRange(cX[j], parseDatatype(cTok))) => RoundTripExact

\* a complex little-endian 32-bit token round-trips a negative and a positive value
C4_Witness ==
    /\ cPc = "readback"
    /\ cTok = Token("c", "i32", "_le")
    /\ cX = <<Num(-32768, 0), Num(32767, 65535)>>
    /\ cRound.values = cX
    /\ cRound.sampleCount = 1

----------------------------------------------------------------------------
(* The chunked reader scenario *)

SpecStreamInit == StreamInit /\ CodecIdle /\ BlobIdle /\ RecInit /\ ArcIdle /\ ParseIdle /\ LoadIdle /\ OthersIdle

SpecStream == SpecStreamInit /\ [][StreamNext]_vars

----------------------------------------------------------------------------
(* Claims about the chunked reader *)

RECURSIVE SumSampleCount(_)
SumSampleCount(chunks) ==
    IF chunks = <<>> THEN 0 ELSE Head(chunks).sampleCount + SumSampleCount(Tail(chunks))

RECURSIVE ConcatValues(_)
ConcatValues(chunks) ==
    IF chunks = <<>> THEN <<>> ELSE Head(chunks).values \o ConcatValues(Tail(chunks))

IsPrefix(a, b) == Len(a) <= Len(b) /\ a = SubSeq(b, 1, Len(a))

BytesPerSample(tok) == parseDatatype(tok).bytesPerSample

\* C1: for a source of exactly N whole samples, any chunk size k >= 1 and any
\* split of the source into reads, the sampleCount values of the chunks
\* yielded by a streamSamples run that reaches its end sum to N; for N = 0
\* no chunk is yielded.
C1_ChunkCountsSumToN ==
    (sPc = "done" /\ Len(sSrc) % BytesPerSample(sTok) = 0) =>
        /\ SumSampleCount(sChunks) = Len(sSrc) \div BytesPerSample(sTok)
        /\ Len(sSrc) = 0 => sChunks = <<>>

\* a run over 2 two-byte samples in chunks of 1, and one with k > N
C1_Witness ==
    /\ sPc = "done"
    /\ BytesPerSample(sTok) = 2
    /\ Len(sSrc) = 4
    /\ \/ sChunkSamples = 1 /\ Len(sChunks) = 2
       \/ sChunkSamples = 3 /\ Len(sChunks) = 1 /\ sChunks[1].sampleCount = 2

\* C2: the concatenation, in yield order, of the values of the chunks equals
\* what readSamples returns for the whole source: while the run goes on the
\* chunks yielded so far are a prefix of it, and at the end they are all of
\* it; trailing bytes too few for a sample are discarded.
C2_ChunksEqualReadSamples ==
    LET whole == readSamples(sSrc, sTok, DefaultOptions)
    IN sPc # "idle" =>
        /\ IsPrefix(ConcatValues(sChunks), whole.values)
        /\ \A i \in 1..Len(sChunks) :
              /\ ~sChunks[i].threw
              /\ Len(sChunks[i].values) =
                    sChunks[i].sampleCount * (IF whole.isComplex THEN 2 ELSE 1)
        /\ sPc = "done" => ConcatValues(sChunks) = whole.values

\* a finished run over two 16-bit samples and a trailing byte, in two chunks
C2_Witness ==
    /\ sPc = "done"
    /\ sTok = Token("r", "i16", "_le")
    /\ sSrc = <<1, 255, 255, 1, 1>>
    /\ Len(sChunks) = 2
    /\ ConcatValues(sChunks) = <<NumOf(-255), NumOf(511)>>

StreamEnded == sPc \in {"done", "returned", "thrown"}

BlobEnded == bPc \in {"returned", "thrown"}

----------------------------------------------------------------------------
(* The reader's life in both streaming operations.  Whether the reader is  *)
(* released does not depend on the byte values, so the streamSamples       *)
(* sources are drawn by length only.  Fairness: a pending read settles and *)
(* the consumer of the generator goes on (next) or stops (return).         *)

SpecReleaseInit ==
    \/ /\ StreamInit
       /\ \A i \in 1..Len(sSrc) : sSrc[i] = 1
       /\ BlobIdle
       /\ CodecIdle
       /\ RecInit
       /\ ArcIdle /\ ParseIdle /\ LoadIdle /\ OthersIdle
    \/ /\ BlobInit
       /\ bSource.seed = 1
       /\ StreamIdle
       /\ CodecIdle
       /\ RecInit
       /\ ArcIdle /\ ParseIdle /\ LoadIdle /\ OthersIdle

SpecReleaseNext ==
    \/ StreamStart
    \/ ReadValue
    \/ ReadDone
    \/ ReadError
    \/ ConsumerNext
    \/ ConsumerReturn
    \/ BlobDirect
    \/ BlobOpenStream
    \/ BlobRead
    \/ BlobReadError

SpecRelease ==
    SpecReleaseInit /\ [][SpecReleaseNext]_vars /\ WF_vars(StreamNext) /\ WF_vars(BlobRead)

----------------------------------------------------------------------------
(* The readSamplesFromBlob scenario *)

SpecBlobInit == BlobInit /\ CodecIdle /\ StreamIdle /\ RecInit /\ ArcIdle /\ ParseIdle /\ LoadIdle /\ OthersIdle

SpecBlob == SpecBlobInit /\ [][BlobNext]_vars

----------------------------------------------------------------------------
(* The recording scenarios *)

SpecRecInit == RecInit /\ CodecIdle /\ StreamIdle /\ BlobIdle /\ ArcIdle /\ ParseIdle /\ LoadIdle /\ OthersIdle

SpecRec == SpecRecInit /\ [][RecNext]_vars

\* a fresh recording that is only added to
SpecAddNext == Construct \/ AddCapture \/ AddAnnotation

SpecAdd == SpecRecInit /\ [][SpecAddNext]_vars

----------------------------------------------------------------------------
(* The archive scenario *)

SpecArchiveInit == ArcIdle /\ CodecIdle /\ StreamIdle /\ BlobIdle /\ RecInit /\ ParseIdle /\ LoadIdle /\ OthersIdle

SpecArchive == SpecArchiveInit /\ [][ArcNext]_vars

----------------------------------------------------------------------------
(* The parseDatatype scenario *)

SpecParseInit ==
    ParseInit /\ CodecIdle /\ StreamIdle /\ BlobIdle /\ RecInit /\ ArcIdle /\ LoadIdle /\ OthersIdle

SpecParse == SpecParseInit /\ [][ParseNext]_vars

----------------------------------------------------------------------------
(* The fromJSON scenario *)

SpecLoadInit ==
    LoadInit /\ CodecIdle /\ StreamIdle /\ BlobIdle /\ RecInit /\ ArcIdle /\ ParseIdle /\ OthersIdle

SpecLoad == SpecLoadInit /\ [][LoadNext]_vars

----------------------------------------------------------------------------
(* Claims about the recording *)

\* the core:sample_start values of the entries of a list, in list order
SampleStartsOf(h, list) ==
    [i \in 1..LengthOf(h, list) |-> Get(h, Index(h, list, i - 1), core("sample_start"))]

\* no entry has a smaller sample_start than an entry before it
SortedByStart(h, list) ==
    LET starts == SampleStartsOf(h, list)
    IN \A i, j \in 1..Len(starts) : i < j => ~Less(starts[j], starts[i])

\* C5: after any sequence of addCapture and addAnnotation calls on a freshly
\* constructed Recording, captures and annotations are each sorted by
\* core:sample_start in non-decreasing order.
C5_AddsKeepSorted ==
    rPc = "live" =>
        /\ IsArray(heap, rCaptures) /\ SortedByStart(heap, rCaptures)
        /\ IsArray(heap, rAnnotations) /\ SortedByStart(heap, rAnnotations)

\* captures added as 1000, 0, 500 (the entry objects are allocated in that
\* order) stand as 0, 500, 1000
C5_Witness ==
    /\ rPc = "live"
    /\ SampleStartsOf(heap, rCaptures) = <<Integer(0), Integer(500), Integer(1000)>>
    /\ LET items == heap[rCaptures.n.lo].items
       IN items[3].n.lo < items[1].n.lo /\ items[1].n.lo < items[2].n.lo

\* C6: validate() never throws and always returns a {valid, errors} result,
\* in every state of the Recording reached through the constructor, fromJSON,
\* the mutators and direct assignment to global, captures and annotations.
C6_ValidateNeverThrows ==
    rResult.called =>
        /\ ~rResult.threw
        /\ rResult.valid = (rResult.errors = <<>>)

\* C7: a document returned by toMetadata() is never changed by a later
\* operation on the Recording: every step leaves the document the snapshot
\* stands for (its global with its core:extensions list, its captures and
\* annotations with every entry) as it was.
C7_SnapshotNeverChanges ==
    [][rSnapshot # Undefined => DocumentAt(heap', rSnapshot) = DocumentAt(heap, rSnapshot)]_vars

----------------------------------------------------------------------------
(* Claims about archives *)

\* the entries a round trip has to give back for the recordings archived
EntriesOf(recordings) ==
    [i \in 1..Len(recordings) |->
        ArchiveEntry(recordings[i].name, recordings[i].metadata, recordings[i].data)]

\* C8: for any list of recordings with pairwise distinct names and any
\* archiveName (or none), readArchive(createArchive(recordings, archiveName))
\* returns exactly one entry per recording, in input order, with the input's
\* name, metadata and data (zero-length data included).
C8_ArchiveRoundTrip ==
    (aRead.called /\ aPc = "whole") =>
        /\ ~aRead.threw
        /\ aRead.entries = EntriesOf(aInput.recordings)

\* a header of the source declares more bytes than the source has after it
DeclaredSizePastEnd(source) ==
    \E i \in 1..Len(parseTar(source)) :
        LET entry == parseTar(source)[i]
        IN Len(entry.data) < entry.size

\* the source is truncated inside a file, or a metadata payload of it is
\* not parseable JSON
Unreadable ==
    \/ aPc = "truncated" /\ DeclaredSizePastEnd(aBlob)
    \/ aPc = "overwritten"

\* C10: readArchive and streamArchive throw and give no entry when the
\* archive is truncated (a header's declared size extends past the end of
\* the input, for a metadata or a data file) or when a .sigmf-meta payload
\* is not parseable JSON; no partial or shortened entry is returned.
C10_UnreadableArchiveThrows ==
    Unreadable =>
        /\ aRead.called => (aRead.threw /\ aRead.entries = <<>>)
        /\ aStreamPc # "idle" => (aStreamPc = "thrown" /\ aYielded = <<>>)

----------------------------------------------------------------------------
(* The recording used through its constructor, fromJSON and its methods    *)
(* only: no assignment to its public fields, no edit of its entries.       *)

SpecMethodsNext ==
    \/ Construct
    \/ FromJSON
    \/ AddCapture
    \/ AddAnnotation
    \/ SetSampleRate
    \/ SetExtensionField
    \/ AddExtension
    \/ Validate
    \/ ToMetadata

SpecMethods == SpecRecInit /\ [][SpecMethodsNext]_vars

\* the value is a string that matches DATATYPE_PATTERN
IsDatatypeToken(v) == v.t = "string" /\ DATATYPE_PATTERN(TokenOfText(v.s))

\* C11: in every state of a Recording reached through the constructor,
\* fromJSON and the public mutators (setExtensionField included),
\* global['core:datatype'] is a syntactically valid datatype token.
C11_DatatypeAlwaysValid ==
    rPc = "live" => IsDatatypeToken(Get(heap, rGlobal, core("datatype")))

----------------------------------------------------------------------------
(* Claims about parseDatatype *)

\* the type groups of the grammar, by component width
NarrowTypes == {"i8", "u8"}
WideTypes == {"f32", "f64", "i32", "i16", "u32", "u16"}

\* C12: parseDatatype rejects every token of width 16, 32 or 64 that has no
\* _le/_be suffix and every 8-bit token that carries one.
C12_SuffixExactlyForWideTypes ==
    (/\ pPc = "parsed"
     /\ pTok.cr \in {"c", "r"}
     /\ \/ pTok.ty \in WideTypes /\ pTok.en = ""
        \/ pTok.ty \in NarrowTypes /\ pTok.en \in {"_le", "_be"})
        => pInfo.threw

\* the tokens of ^(c|r)(f32|f64|i32|i16|u32|u16|i8|u8)(_le|_be)?$
GrammarTokens ==
    {Token(cr, ty, en) :
        cr \in {"c", "r"}, ty \in NarrowTypes \cup WideTypes, en \in {"", "_le", "_be"}}

\* the component width a type group names
WidthOf(ty) ==
    CASE ty \in {"i8", "u8"} -> 8
      [] ty \in {"i16", "u16"} -> 16
      [] ty \in {"f32", "i32", "u32"} -> 32
      [] ty = "f64" -> 64

----------------------------------------------------------------------------
(* Claims about the decoded window of readSamples *)

\* bytes of one sample of the token, from the grammar
BytesPerSampleOf(tok) == (WidthOf(tok.ty) \div 8) * (IF tok.cr = "c" THEN 2 ELSE 1)

\* whole samples of the token in the buffer from sample index offset on
SamplesFrom(buffer, tok, offset) ==
    (Len(buffer) - offset * BytesPerSampleOf(tok)) \div BytesPerSampleOf(tok)

\* samples the options ask for, of those the buffer holds
WindowCount(buffer, tok, options) ==
    IF options.count.given /\ options.count.n < SamplesFrom(buffer, tok, options.offset)
    THEN options.count.n
    ELSE SamplesFrom(buffer, tok, options.offset)

\* C14: for a valid token and offset x bytesPerSample <= buffer length,
\* readSamples decodes exactly min(count, floor((length - offset x
\* bytesPerSample) / bytesPerSample)) samples (all of them when count is
\* omitted), starting at sample index offset; the array has 2 x sampleCount
\* components for a complex type (I then Q) and sampleCount for a real one;
\* the input buffer is left as it was.
C14_DecodesTheWindow ==
    (/\ cPc = "read"
     /\ cTok \in GrammarTokens
     /\ cOpt.offset * BytesPerSampleOf(cTok) <= Len(cBuf)) =>
        LET n == WindowCount(cBuf, cTok, cOpt)
            bpc == WidthOf(cTok.ty) \div 8
            first == cOpt.offset * BytesPerSampleOf(cTok)
        IN /\ ~cRead.threw
           /\ cRead.sampleCount = n
           /\ cRead.isComplex <=> cTok.cr = "c"
           /\ Len(cRead.values) = (IF cTok.cr = "c" THEN 2 * n ELSE n)
           /\ \A j \in 1..Len(cRead.values) :
                 cRead.values[j]
                    = readValue(cBuf, first + (j - 1) * bpc, parseDatatype(cTok))

\* a complex 8-bit buffer of two samples read from sample 1 on: Q follows I
C14_Witness ==
    /\ cPc = "read"
    /\ cTok = Token("c", "u8", "")
    /\ cBuf = <<1, 128, 255, 1>>
    /\ cOpt = Options(1, Count(2))
    /\ cRead.sampleCount = 1
    /\ cRead.values = <<NumOf(255), NumOf(1)>>

----------------------------------------------------------------------------
(* Claims about the two paths of readSamplesFromBlob *)

\* the component decoded from the source bytes at byte position pos
SourceComponent(source, tok, pos) ==
    readValue(BlobSlice(source, pos, pos + WidthOf(tok.ty) \div 8), 0, parseDatatype(tok))

\* byte a (0-based) of the chunk a run decoded: the partial sample carried
\* over, then the bytes the read delivered
RunChunkByte(source, run, a) ==
    IF a < Len(run.partial) THEN run.partial[a + 1]
    ELSE BlobByte(source.seed, run.start + a - Len(run.partial))

\* component c (0 = I or real, 1 = Q) of sample k of a run, as decoded from its chunk
RunComponent(source, tok, run, k, c) ==
    LET bpc == WidthOf(tok.ty) \div 8
        at == k * BytesPerSampleOf(tok) + c * bpc
    IN readValue([i \in 1..bpc |-> RunChunkByte(source, run, at + i - 1)], 0,
                 parseDatatype(tok))

\* samples of the window: as many as the options ask for, of those the source holds
BlobWindowCount(source, tok, options) ==
    LET held == (source.size - options.offset * BytesPerSampleOf(tok))
                    \div BytesPerSampleOf(tok)
    IN IF options.count.given /\ options.count.n < held THEN options.count.n ELSE held

\* sample indices of a run that are looked at: its first two and its last two
RunEdges(run) == {k \in {0, 1, run.count - 2, run.count - 1} : k >= 0 /\ k < run.count}

\* C15: readSamplesFromBlob returns the same sampleCount and sample values on
\* the direct path and on the streaming path, for any split of the streamed
\* bytes into reads (also in the middle of a sample): both equal readSamples
\* on the same window of the source.
C15_BothPathsReadTheWindow ==
    LET bps == BytesPerSampleOf(bTok)
        bpc == WidthOf(bTok.ty) \div 8
        comps == IF bTok.cr = "c" THEN 2 ELSE 1
        first == bOpt.offset * bps
        n == BlobWindowCount(bSource, bTok, bOpt)
    IN \* the direct path
       /\ (bPc \in {"returned", "thrown"} /\ bReader = "none") =>
             /\ bSource.size < StreamThreshold =>
                   bResult = readSamples(BlobSlice(bSource, 0, bSource.size), bTok, bOpt)
             /\ first <= bSource.size =>
                   /\ ~bResult.threw
                   /\ bResult.sampleCount = n
                   /\ Len(bResult.values) = comps * n
                   /\ \A j \in 1..Len(bResult.values) :
                         bResult.values[j]
                            = SourceComponent(bSource, bTok, first + (j - 1) * bpc)
       \* the streaming path: every read decodes the samples that follow
       \* those decoded so far, from the bytes of the source they lie at
       /\ bReader # "none" =>
             /\ \A i \in 1..Len(bRuns) :
                   LET run == bRuns[i]
                   IN /\ run.first = (IF i = 1 THEN 0
                                      ELSE bRuns[i - 1].first + bRuns[i - 1].count)
                      /\ run.start - Len(run.partial) = first + run.first * bps
                      /\ run.partial
                           = BlobSlice(bSource, run.start - Len(run.partial), run.start)
                      /\ \A k \in RunEdges(run) : \A c \in 0..(comps - 1) :
                            RunComponent(bSource, bTok, run, k, c)
                               = SourceComponent(bSource, bTok,
                                      first + (run.first + k) * bps + c * bpc)
             /\ bSamplesRead = (IF bRuns = <<>> THEN 0
                                ELSE bRuns[Len(bRuns)].first + bRuns[Len(bRuns)].count)
             /\ bPc = "returned" =>
                   /\ ~bResult.threw
                   /\ bResult.sampleCount = n
                   /\ bSamplesRead = n

\* a streamed run whose second read began in the middle of a sample
C15_Witness ==
    /\ bPc = "returned"
    /\ bReader = "released"
    /\ bTok = Token("c", "i16", "_be")
    /\ Len(bRuns) >= 2
    /\ bRuns[2].partial # <<>>
    /\ bResult.sampleCount = BlobWindowCount(bSource, bTok, bOpt)

----------------------------------------------------------------------------
(* The validation scenario: a recording loaded by fromJSON from a document *)
(* whose entries are sorted or not, well-formed or not, then captures and  *)
(* annotations assigned directly, and validate().                          *)

\* a list of entries with the given core:sample_start values
StartsDoc(starts) == Arr([i \in 1..Len(starts) |-> EntryDoc(starts[i])])

\* an entry without core:sample_start
NoStartDoc == Obj(<<>>)

\* an annotation at sample 0 with the given frequency edges (Undefined: absent)
EdgesDoc(start, lower, upper) ==
    Obj(<<CoreField("sample_start", Prim(start))>>
        \o (IF lower = Undefined THEN <<>> ELSE <<CoreField("freq_lower_edge", Prim(lower))>>)
        \o (IF upper = Undefined THEN <<>> ELSE <<CoreField("freq_upper_edge", Prim(upper))>>))

\* a global object that loads (both required fields are truthy) and does not validate
BadGlobalDoc == Obj(<<CoreField("datatype", Prim(String(<<"b", "o", "g", "u", "s">>))),
                      CoreField("version", Prim(String(<<"1">>)))>>)

LoadedDoc(global, captures, annotations) ==
    Obj(<<Field("global", global), Field("captures", captures),
          Field("annotations", annotations)>>)

LoadedDocuments ==
    {LoadedDoc(GlobalDoc, StartsDoc(<<Integer(0), Integer(500), Integer(500)>>),
               StartsDoc(<<Integer(0), Integer(1000)>>)),
     LoadedDoc(GlobalDoc, StartsDoc(<<Integer(500), Integer(0)>>), Arr(<<>>)),
     LoadedDoc(GlobalDoc, Arr(<<>>), StartsDoc(<<Integer(1000), Integer(0), Integer(500)>>)),
     LoadedDoc(GlobalDoc, StartsDoc(<<Integer(10), Integer(-5), Integer(3)>>),
               StartsDoc(<<Frac(7), Integer(3)>>)),
     LoadedDoc(GlobalDoc, StartsDoc(<<String(<<"1", "0">>), Integer(3)>>),
               Arr(<<EntryDoc(Integer(500)), NoStartDoc, EntryDoc(Integer(0))>>)),
     LoadedDoc(BadGlobalDoc, StartsDoc(<<Integer(1000), Integer(500), Integer(0)>>),
               Arr(<<EntryDoc(Integer(500)), EntryDoc(Integer(0)), NoStartDoc>>)),
     LoadedDoc(GlobalDoc, Arr(<<>>),
               Arr(<<EdgesDoc(Integer(0), Integer(10), Undefined),
                     EdgesDoc(Integer(0), Undefined, Integer(10)),
                     EdgesDoc(Integer(0), Integer(20), Integer(10))>>)),
     LoadedDoc(GlobalDoc, Arr(<<>>),
               Arr(<<EdgesDoc(Integer(0), String(<<"a">>), Integer(10)),
                     EdgesDoc(Integer(0), Integer(10), String(<<"a">>)),
                     EdgesDoc(Integer(0), String(<<"a">>), String(<<"b">>))>>)),
     LoadedDoc(GlobalDoc, Arr(<<>>),
               Arr(<<EdgesDoc(Integer(0), Integer(10), Integer(10)),
                     EdgesDoc(Integer(0), Frac(10), Integer(10)),
                     EdgesDoc(Integer(0), Integer(10), Frac(10))>>)),
     LoadedDoc(BadGlobalDoc, Arr(<<NoStartDoc, EntryDoc(String(<<"x">>))>>),
               Arr(<<EdgesDoc(Integer(500), Integer(20), Integer(10)),
                     EdgesDoc(Integer(0), Undefined, Integer(10))>>)),
     LoadedDoc(GlobalDoc, StartsDoc(<<Integer(0)>>),
               Arr(<<EdgesDoc(Integer(0), Integer(10), Integer(20))>>)),
     LoadedDoc(GlobalDoc, StartsDoc(<<NaN, Integer(0)>>),
               Arr(<<EdgesDoc(Integer(0), Null, Integer(10)),
                     EdgesDoc(Integer(0), Integer(-20), Integer(-10)),
                     EdgesDoc(Integer(0), NaN, Integer(10))>>))}

\* the recording SigMFRecording.fromJSON(doc) returned: the first call made
LoadedInit ==
    /\ rPc = "live"
    /\ \E doc \in LoadedDocuments :
         LET data == Alloc(<<>>, doc)
             made == fromJSON(data.heap, data.val)
         IN /\ ~made.threw
            /\ heap = made.heap
            /\ rGlobal = made.global
            /\ rCaptures = made.captures
            /\ rAnnotations = made.annotations
    /\ rSnapshot = Undefined
    /\ rResult = NoValidation
    /\ rThrown = FALSE
    /\ rCalls = 1

SpecValidateInit ==
    LoadedInit /\ CodecIdle /\ StreamIdle /\ BlobIdle /\ ArcIdle /\ ParseIdle /\ LoadIdle /\ OthersIdle

SpecValidateNext ==
    \/ AssignCaptures
    \/ AssignAnnotations
    \/ Validate

SpecValidate == SpecValidateInit /\ [][SpecValidateNext]_vars

----------------------------------------------------------------------------
(* Claims about validate() *)

\* validate() has returned a result for the recording as it stands
Validated == rResult.called /\ ~rResult.threw

\* a non-negative integer
ValidStart(v) == v.t = "number" /\ v.q = "int" /\ v.n.hi >= 0

\* the messages about the order of the entries
SortingMessages ==
    {"captures must be sorted by sample_start ascending",
     "annotations must be sorted by sample_start ascending"}

\* every sample_start of the list is a non-negative integer, none smaller
\* than the one before it
SortedValidStarts(starts) ==
    /\ \A i \in 1..Len(starts) : ValidStart(starts[i])
    /\ \A i \in 2..Len(starts) : ~NumLess(starts[i].n, starts[i - 1].n)

\* every entry whose valid sample_start is smaller than the sample_start of
\* the entry before it has an error at its own path that speaks of sorting
DisorderReported(errors, root, starts) ==
    \A i \in 2..Len(starts) :
        (/\ ValidStart(starts[i])
         /\ starts[i - 1].t = "number"
         /\ Less(starts[i], starts[i - 1]))
            => \E k \in 1..Len(errors) :
                  /\ errors[k].path = Path(root, i - 1, core("sample_start"), "")
                  /\ errors[k].message \in SortingMessages

\* C16: for captures and annotations assigned directly or loaded by fromJSON,
\* validate() returns valid = true only if the list is sorted in
\* non-decreasing core:sample_start order with every sample_start a
\* non-negative integer; and every entry whose valid sample_start is smaller
\* than the previous entry's gets an error at its own path
\* (captures[i].core:sample_start) whose message references sorting.
C16_UnsortedNeverValid ==
    Validated =>
        LET captures == SampleStartsOf(heap, rCaptures)
            annotations == SampleStartsOf(heap, rAnnotations)
        IN /\ rResult.valid =>
                 /\ SortedValidStarts(captures)
                 /\ SortedValidStarts(annotations)
           /\ DisorderReported(rResult.errors, "captures", captures)
           /\ DisorderReported(rResult.errors, "annotations", annotations)

\* captures 1000, 500, 0 were loaded: errors at captures[1] and captures[2]
C16_Witness ==
    /\ Validated
    /\ ~rResult.valid
    /\ SampleStartsOf(heap, rCaptures) = <<Integer(1000), Integer(500), Integer(0)>>
    /\ \E k \in 1..Len(rResult.errors) :
          /\ rResult.errors[k].path = Path("captures", 2, core("sample_start"), "")
          /\ rResult.errors[k].message \in SortingMessages


\* the annotations of the recording, in list order
AnnotationsOf(h, list) == [j \in 1..LengthOf(h, list) |-> Index(h, list, j - 1)]

\* validate() has reported an error about the frequency edges of annotation j
EdgeErrorAt(errors, j) ==
    \E k \in 1..Len(errors) :
        /\ errors[k].path.root = "annotations"
        /\ errors[k].path.index = j
        /\ errors[k].path.key \in {NoKey, core("freq_lower_edge"), core("freq_upper_edge")}

\* a > b on numbers (false when either is NaN)
Greater(a, b) ==
    /\ a.q # "nan" /\ b.q # "nan"
    /\ \/ NumLess(b.n, a.n)
       \/ a.n = b.n /\ a.q = "frac" /\ b.q = "int"

\* the cases in which the edges of an annotation are in error
EdgesInError(lower, upper) ==
    \/ (lower = Undefined) # (upper = Undefined)
    \/ /\ lower # Undefined /\ upper # Undefined
       /\ lower.t # "number" \/ upper.t # "number"
    \/ /\ lower.t = "number" /\ upper.t = "number"
       /\ Greater(lower, upper)

\* C17: validate() reports a frequency-edge error for an annotation exactly
\* when exactly one of core:freq_lower_edge and core:freq_upper_edge is
\* present, or both are present and at least one is not numeric, or both are
\* numeric and lower > upper; there is no edge error when both are absent or
\* both are numeric with lower <= upper.
C17_EdgeErrorsExact ==
    Validated =>
        \A j \in 1..LengthOf(heap, rAnnotations) :
            LET annotation == AnnotationsOf(heap, rAnnotations)[j]
            IN EdgeErrorAt(rResult.errors, j - 1)
                  <=> EdgesInError(Get(heap, annotation, core("freq_lower_edge")),
                                   Get(heap, annotation, core("freq_upper_edge")))

\* a lower edge alone, an upper edge alone and a lower edge above the upper
\* one are each reported
C17_Witness ==
    /\ Validated
    /\ LengthOf(heap, rAnnotations) = 3
    /\ Get(heap, Index(heap, rAnnotations, 0), core("freq_upper_edge")) = Undefined
    /\ Get(heap, Index(heap, rAnnotations, 1), core("freq_lower_edge")) = Undefined
    /\ Get(heap, Index(heap, rAnnotations, 2), core("freq_lower_edge")) = Integer(20)
    /\ \A j \in 0..2 : EdgeErrorAt(rResult.errors, j)


\* the place of an error's section in the result: global, captures, annotations
SectionOf(error) ==
    CASE error.path.root = "global" -> 0
      [] error.path.root = "captures" -> 1
      [] error.path.root = "annotations" -> 2

\* C18: in the errors list of validate(), the errors of global come before
\* those of captures[i], which come before those of annotations[j]; the
\* capture errors are in non-decreasing i and the annotation errors in
\* non-decreasing j; valid is true exactly when the list is empty.
C18_ErrorsInSectionOrder ==
    Validated =>
        /\ \A k \in 1..Len(rResult.errors) :
              rResult.errors[k].path.root \in {"global", "captures", "annotations"}
        /\ \A k, l \in 1..Len(rResult.errors) :
              k < l =>
                 /\ SectionOf(rResult.errors[k]) <= SectionOf(rResult.errors[l])
                 /\ (/\ SectionOf(rResult.errors[k]) = SectionOf(rResult.errors[l])
                     /\ SectionOf(rResult.errors[k]) > 0)
                       => rResult.errors[k].path.index <= rResult.errors[l].path.index
        /\ rResult.valid <=> rResult.errors = <<>>

\* a result with errors of global, of two captures and of two annotations
C18_Witness ==
    /\ Validated
    /\ \E g, c1, c2, a1, a2 \in 1..Len(rResult.errors) :
          /\ rResult.errors[g].path.root = "global"
          /\ rResult.errors[c1].path = Path("captures", 1, core("sample_start"), "")
          /\ rResult.errors[c2].path = Path("captures", 2, core("sample_start"), "")
          /\ rResult.errors[a1].path = Path("annotations", 1, core("sample_start"), "")
          /\ rResult.errors[a2].path = Path("annotations", 2, core("sample_start"), "")
          /\ g < c1 /\ c1 < c2 /\ c2 < a1 /\ a1 < a2

----------------------------------------------------------------------------
(* Claims about fromJSON *)

\* the value of a field of a document, Prim(Undefined) when it has none
DocField(doc, key) ==
    IF doc.kind = "object" /\ \E i \in 1..Len(doc.fields) : doc.fields[i][1] = key
    THEN doc.fields[CHOOSE i \in 1..Len(doc.fields) : doc.fields[i][1] = key][2]
    ELSE Prim(Undefined)

\* the entries a loaded list has to hold: those of the input array, in input
\* order, or none when the input value is absent or not an array
EntriesLoaded(value) == IF value.kind = "array" THEN value ELSE Arr(<<>>)

\* C19: fromJSON throws the missing-global error when the document has no
\* global object; it throws the missing-required-field error naming
\* core:datatype (resp. core:version) when that field is absent from global;
\* for a document with both it returns a Recording whose captures and
\* annotations hold the entries of the input arrays in input order (no
\* re-sorting), or are empty when the input value is absent or not an array,
\* and raises no error.
C19_LoadErrorsAndEntries ==
    lPc = "loaded" =>
        LET global == DocField(lInput, Key("", "global"))
            datatype == DocField(global, core("datatype"))
            version == DocField(global, core("version"))
        IN IF global.kind # "object"
           THEN /\ lResult.threw
                /\ lResult.error = "Invalid SigMF: missing or invalid global object"
           ELSE IF datatype = Prim(Undefined)
           THEN /\ lResult.threw
                /\ lResult.error = "Invalid SigMF: missing required field core:datatype"
           ELSE IF version = Prim(Undefined)
           THEN /\ lResult.threw
                /\ lResult.error = "Invalid SigMF: missing required field core:version"
           ELSE /\ ~lResult.threw
                /\ lResult.captures = EntriesLoaded(DocField(lInput, Key("", "captures")))
                /\ lResult.annotations
                     = EntriesLoaded(DocField(lInput, Key("", "annotations")))

----------------------------------------------------------------------------
(* The pairing scenario: readArchive is given an archive written by some   *)
(* other tar writer, whose files stand in any order, with data files that  *)
(* have no metadata file and files that are neither.                       *)

\* most files of one archive given
MaxFiles == 3

ArchivedFile(name, content) == [name |-> name, content |-> content]

\* the files the archives are made of: two recordings (the second with its
\* metadata at the top level and its data in a directory), a data file
\* alone, and a file that is neither
ArchivedFiles ==
    {ArchivedFile(<<"d", "/", "a">> \o SigmfMeta, TextEncode(JSON_stringify(MetadataOnlyDoc))),
     ArchivedFile(<<"d", "/", "a">> \o SigmfData, <<1, 2, 255>>),
     ArchivedFile(<<"b">> \o SigmfMeta, TextEncode(JSON_stringify(CapturedDoc))),
     ArchivedFile(<<"d", "/", "b">> \o SigmfData, <<7>>),
     ArchivedFile(<<"d", "/", "c">> \o SigmfData, <<9, 9>>),
     ArchivedFile(<<"d", "/", "r", ".", "t", "x", "t">>, <<104, 105>>)}

\* the lists of up to MaxFiles distinct files, in every order
FileLists ==
    {s \in SeqsUpTo(ArchivedFiles, MaxFiles) : \A i, j \in 1..Len(s) : i # j => s[i] # s[j]}

\* the source given to readArchive holds the files of one of the lists
GivenInit ==
    /\ aPc = "given"
    /\ \E files \in FileLists :
          /\ aInput = [recordings |-> <<>>, archiveName |-> Undefined, files |-> files]
          /\ aBlob = Tar(files)
    /\ aRead = NoRead
    /\ aStreamPc = "idle"
    /\ aPending = <<>>
    /\ aYielded = <<>>

SpecPairingInit ==
    GivenInit /\ CodecIdle /\ StreamIdle /\ BlobIdle /\ RecInit /\ ParseIdle /\ LoadIdle /\ OthersIdle

SpecPairingNext ==
    \/ ReadArchive
    \/ StreamArchiveStart
    \/ StreamArchiveNext

SpecPairing == SpecPairingInit /\ [][SpecPairingNext]_vars

----------------------------------------------------------------------------
(* Claims about the pairing of the files of an archive *)

\* the name of a file without its leading directory and without the suffix
BaseName(file, suffix) == DropLast(RemoveLeadingDirectory(file.name), Len(suffix))

\* the files of the list whose name ends with the suffix
FilesEnding(files, suffix) ==
    {i \in 1..Len(files) : EndsWith(RemoveLeadingDirectory(files[i].name), suffix)}

\* C20: readArchive returns one entry per .sigmf-meta base name; the entry's
\* data is the content of the .sigmf-data file with the identical base name,
\* or empty when there is none; a .sigmf-data file without a matching
\* .sigmf-meta file never appears as an entry; all this whatever the order
\* of the files inside the archive.
C20_PairsByBaseName ==
    (aPc = "given" /\ aRead.called) =>
        LET files == aInput.files
            meta == FilesEnding(files, SigmfMeta)
            data == FilesEnding(files, SigmfData)
            entries == aRead.entries
        IN /\ ~aRead.threw
           /\ Len(entries) = Cardinality({BaseName(files[i], SigmfMeta) : i \in meta})
           /\ \A i \in meta : \E k \in 1..Len(entries) :
                 /\ entries[k].name = BaseName(files[i], SigmfMeta)
                 /\ entries[k].metadata = JSON_parse(TextDecode(files[i].content)).doc
           /\ \A k \in 1..Len(entries) :
                 /\ \E i \in meta : entries[k].name = BaseName(files[i], SigmfMeta)
                 /\ \A j \in data :
                       BaseName(files[j], SigmfData) = entries[k].name
                          => entries[k].data = files[j].content
                 /\ (\A j \in data : BaseName(files[j], SigmfData) # entries[k].name)
                       => entries[k].data = <<>>

\* the data of b stands first, then a data file alone, then the metadata of
\* b: one entry, b, with its data
C20_Witness ==
    /\ aPc = "given"
    /\ aRead.called
    /\ Len(aInput.files) = 3
    /\ aInput.files[1].name = <<"d", "/", "b">> \o SigmfData
    /\ aInput.files[2].name = <<"d", "/", "c">> \o SigmfData
    /\ aInput.files[3].name = <<"b">> \o SigmfMeta
    /\ Len(aRead.entries) = 1
    /\ aRead.entries[1].name = <<"b">>
    /\ aRead.entries[1].data = <<7>>

----------------------------------------------------------------------------
(* The prefix scenario: readArchive is given an archive whose headers are  *)
(* written as the test's writeTarHeader writes them, with the path of a    *)
(* file split between the prefix field and the name field.                 *)

RECURSIVE SumBytes(_)
SumBytes(bytes) == IF bytes = <<>> THEN 0 ELSE Head(bytes) + SumBytes(Tail(bytes))

\* writeTarHeader(offset, name, prefix, size): the 512 bytes of the header
writeTarHeader(name, prefix, size) ==
    LET At(bytes, offset, at) ==
            IF at - offset \in 0..(Len(bytes) - 1) THEN bytes[at - offset + 1] ELSE 0
        nameBytes == Slice(TextEncode(name), 0, 100)
        mode == TextEncode(<<"0", "0", "0", "0", "6", "4", "4">>) \o <<0>>
        id == TextEncode(<<"0", "0", "0", "0", "0", "0", "0">>) \o <<0>>
        sizeOctal == TextEncode(OctalText(size, 11)) \o <<0>>
        mtime == TextEncode(OctalText(0, 11)) \o <<0>>
        magic == TextEncode(<<"u", "s", "t", "a", "r">>) \o <<0>>
        version == TextEncode(<<"0", "0">>)
        prefixBytes == Slice(TextEncode(prefix), 0, 155)
        \* the sum of all bytes, the checksum field holding eight spaces
        checksum == SumBytes(nameBytes) + SumBytes(mode) + 2 * SumBytes(id)
                      + SumBytes(sizeOctal) + SumBytes(mtime) + 48 + SumBytes(magic)
                      + SumBytes(version) + SumBytes(prefixBytes) + 8 * 32
        checksumOctal == TextEncode(OctalText(checksum, 6)) \o <<0, 32>>
    IN [i \in 1..BLOCK_SIZE |->
          IF i - 1 = 156 THEN 48
          ELSE At(nameBytes, 0, i - 1) + At(mode, 100, i - 1) + At(id, 108, i - 1)
                 + At(id, 116, i - 1) + At(sizeOctal, 124, i - 1) + At(mtime, 136, i - 1)
                 + At(checksumOctal, 148, i - 1) + At(magic, 257, i - 1)
                 + At(version, 263, i - 1) + At(prefixBytes, 345, i - 1)]

SplitFile(prefix, name, content) == [prefix |-> prefix, name |-> name, content |-> content]

RECURSIVE SplitArchive(_)
\* the archive of the files: header, content, padding; then two zero blocks
SplitArchive(files) ==
    IF files = <<>> THEN Zeros(2 * BLOCK_SIZE)
    ELSE LET f == Head(files)
         IN writeTarHeader(f.name, f.prefix, Len(f.content)) \o f.content
              \o Zeros(Blocks(Len(f.content)) * BLOCK_SIZE - Len(f.content))
              \o SplitArchive(Tail(files))

\* the files of the archives: p/q/a.sigmf-meta split at either slash or not
\* at all, and p/q/a.sigmf-data split at either slash
SplitFiles ==
    LET a == TextEncode(JSON_stringify(CapturedDoc))
    IN {SplitFile(<<>>, <<"p", "/", "q", "/", "a">> \o SigmfMeta, a),
        SplitFile(<<"p">>, <<"q", "/", "a">> \o SigmfMeta, a),
        SplitFile(<<"p", "/", "q">>, <<"a">> \o SigmfMeta, a),
        SplitFile(<<"p">>, <<"q", "/", "a">> \o SigmfData, <<1, 2, 255>>),
        SplitFile(<<"p", "/", "q">>, <<"a">> \o SigmfData, <<1, 2, 255>>)}

SplitFileLists ==
    {s \in SeqsUpTo(SplitFiles, MaxFiles) : \A i, j \in 1..Len(s) : i # j => s[i] # s[j]}

\* the source given to readArchive holds the files of one of the lists
PrefixedInit ==
    /\ aPc = "prefixed"
    /\ \E files \in SplitFileLists :
          /\ aInput = [recordings |-> <<>>, archiveName |-> Undefined, files |-> files]
          /\ aBlob = SplitArchive(files)
    /\ aRead = NoRead
    /\ aStreamPc = "idle"
    /\ aPending = <<>>
    /\ aYielded = <<>>

SpecPrefixInit ==
    PrefixedInit /\ CodecIdle /\ StreamIdle /\ BlobIdle /\ RecInit /\ ParseIdle /\ LoadIdle /\ OthersIdle

SpecPrefixNext ==
    \/ ReadArchive
    \/ StreamArchiveStart
    \/ StreamArchiveNext

SpecPrefix == SpecPrefixInit /\ [][SpecPrefixNext]_vars

----------------------------------------------------------------------------
(* Claims about the prefix field *)

\* the effective path of a file: prefix + "/" + name when it has a prefix
EffectivePath(file) ==
    IF file.prefix = <<>> THEN file.name ELSE file.prefix \o <<"/">> \o file.name

\* the same files with the whole effective path in the name field
InNameAlone(files) ==
    [i \in 1..Len(files) |-> SplitFile(<<>>, EffectivePath(files[i]), files[i].content)]

\* C21: an archive whose headers carry a file's path split over the prefix
\* field and the name field is read by readArchive to the same entries
\* (name, metadata, data) as an archive that carries the same effective path
\* in the name field alone.
C21_PrefixReadAsName ==
    (aPc = "prefixed" /\ aRead.called) =>
        /\ ~aRead.threw
        /\ aRead = readArchive(SplitArchive(InNameAlone(aInput.files)))

\* the metadata split as p/q + a.sigmf-meta and the data as p + q/a.sigmf-data
\* are read as the one entry q/a
C21_Witness ==
    /\ aPc = "prefixed"
    /\ aRead.called
    /\ Len(aInput.files) = 2
    /\ aInput.files[1].prefix = <<"p", "/", "q">>
    /\ aInput.files[1].name = <<"a">> \o SigmfMeta
    /\ aInput.files[2].prefix = <<"p">>
    /\ aInput.files[2].name = <<"q", "/", "a">> \o SigmfData
    /\ Len(aRead.entries) = 1
    /\ aRead.entries[1].name = <<"q", "/", "a">>
    /\ aRead.entries[1].data = <<1, 2, 255>>

----------------------------------------------------------------------------
(* The createArchive scenario: a list of recordings is drawn, names that   *)
(* repeat included, with data of 0, 2, 3 and 512 bytes; the archive is     *)
(* built from it and read back.                                            *)

\* most recordings of a drawn list
MaxBuilt == 3

\* a data file that fills one block exactly
FullBlock == [i \in 1..BLOCK_SIZE |-> i % 256]

\* the text of the token cx32_le, which parseDatatype rejects
T_cx32_le == <<"c", "x", "3", "2", "_", "l", "e">>

\* a metadata document with that datatype
BadDatatypeDoc ==
    Obj(<<<<K_global, Obj(<<<<K_datatype, Prim(String(T_cx32_le))>>,
                            <<K_version, Prim(String(T_1_0_0))>>>>)>>,
          <<K_captures, Arr(<<>>)>>,
          <<K_annotations, Arr(<<>>)>>>>)

BuiltOptions ==
    {ArchiveOption(<<"a">>, MetadataOnlyDoc, <<>>),
     ArchiveOption(<<"a">>, CapturedDoc, <<1, 2, 255>>),
     ArchiveOption(<<"b">>, CapturedDoc, FullBlock),
     ArchiveOption(<<"c">>, BadDatatypeDoc, <<4, 5>>)}

BuiltInputs == SeqsUpTo(BuiltOptions, MaxBuilt)

BuiltDirNames == {Undefined, String(<<"d">>)}

DrawnInit ==
    /\ aPc = "drawn"
    /\ \E recordings \in BuiltInputs, archiveName \in BuiltDirNames :
          aInput = [recordings |-> recordings, archiveName |-> archiveName]
    /\ aBlob = <<>>
    /\ aRead = NoRead
    /\ aStreamPc = "idle"
    /\ aPending = <<>>
    /\ aYielded = <<>>

SpecBuildInit == DrawnInit /\ CodecIdle /\ StreamIdle /\ BlobIdle /\ RecInit /\ ParseIdle /\ LoadIdle /\ OthersIdle

SpecBuildNext == CreateArchive \/ ReadArchive \/ StreamArchiveStart \/ StreamArchiveNext

SpecBuild == SpecBuildInit /\ [][SpecBuildNext]_vars

----------------------------------------------------------------------------
(* Claims about the archive createArchive builds *)

\* C22: for every list of entries (any names, data of any length: 0, not a
\* multiple of 512, a multiple of 512; the empty list too) the byte length
\* of the archive createArchive builds is a multiple of 512.
C22_ArchiveBlockAligned ==
    aPc \in {"built", "whole"} => Len(aBlob) % BLOCK_SIZE = 0

\* an archive of two recordings, one with three data bytes and one with a
\* full block of data, has been built
C22_Witness ==
    /\ aPc = "built"
    /\ Len(aInput.recordings) = 2
    /\ aInput.recordings[1].data = <<1, 2, 255>>
    /\ aInput.recordings[2].data = FullBlock
    /\ Len(aBlob) > 6 * BLOCK_SIZE
    /\ Len(aBlob) % BLOCK_SIZE = 0

\* the last recording of the list with the given name
LastNamed(recordings, name) ==
    recordings[CHOOSE i \in 1..Len(recordings) :
                  /\ recordings[i].name = name
                  /\ \A j \in (i + 1)..Len(recordings) : recordings[j].name # name]

RECURSIVE OnePerName(_, _)
\* one entry per name, at the place of the first recording of that name,
\* with the metadata and the data of the last one
OnePerName(recordings, i) ==
    IF i > Len(recordings) THEN <<>>
    ELSE IF \E j \in 1..(i - 1) : recordings[j].name = recordings[i].name
    THEN OnePerName(recordings, i + 1)
    ELSE LET last == LastNamed(recordings, recordings[i].name)
         IN <<ArchiveEntry(last.name, last.metadata, last.data)>>
              \o OnePerName(recordings, i + 1)

InvalidDatatypeArchived ==
    {i \in 1..Len(aInput.recordings) :
        /\ DocField(DocField(aInput.recordings[i].metadata, K_global), K_datatype)
             = Prim(String(T_cx32_le))
        /\ parseDatatype(Token("c", "x32", "_le")).threw}

\* C24: when the .sigmf-meta document of an archive carries an invalid
\* datatype token, readArchive returns no entry for it: it throws (the
\* invalid-datatype error of the metadata layer, not caught, not wrapped).
C24_InvalidDatatypeSurfaces ==
    (aPc = "built" /\ aRead.called /\ InvalidDatatypeArchived # {}) =>
        /\ aRead.threw
        /\ aRead.entries = <<>>

----------------------------------------------------------------------------
(* parseTar header by header: the while loop of parseTar as steps, over    *)
(* inputs whose headers carry any size text and type flag.                 *)

\* most headers written into an input
MaxHeaders == 2

\* a header block with the name f, the given text in its size field and the
\* given type flag
RawHeader(sizeText, typeflag) ==
    LET sizeBytes == TextEncode(sizeText)
    IN [i \in 1..BLOCK_SIZE |->
          IF i = TAR_HEADER.name.offset + 1 THEN 102
          ELSE IF i - TAR_HEADER.size.offset \in 1..Len(sizeBytes)
          THEN sizeBytes[i - TAR_HEADER.size.offset]
          ELSE IF i = TAR_HEADER.typeflag.offset + 1 THEN typeflag
          ELSE 0]

\* blocks of spaces: read as a header, a block of them has an empty size
\* text and is no file
Spaces(blocks) == [i \in 1..(blocks * BLOCK_SIZE) |-> 32]

\* a header and the blocks that follow it
Segment(sizeText, typeflag, blocks) == RawHeader(sizeText, typeflag) \o Spaces(blocks)

\* sizes 0, absent, 1, 512, 513, not a number, negative, signed, and past
\* the end of the input; files ('0', NUL), a directory ('5'), another flag
Segments ==
    {Segment(<<"0">>, 48, 0),
     Segment(<<>>, 0, 0),
     Segment(<<"1">>, 48, 1),
     Segment(<<"1", "0", "0", "0">>, 48, 1),
     Segment(<<"1", "0", "0", "1">>, 48, 2),
     Segment(<<"1", "0", "0", "1">>, 53, 1),
     Segment(<<"x">>, 48, 1),
     Segment(<<"-", "1">>, 120, 0),
     Segment(<<"+", "1">>, 0, 1),
     Segment(<<"7", "7", "7", "7", "7">>, 48, 0)}

\* what follows the last segment: nothing, the two zero blocks, or a part
\* of a block
Endings == {<<>>, Zeros(2 * BLOCK_SIZE), Zeros(100)}

RECURSIVE Flatten(_)
Flatten(parts) == IF parts = <<>> THEN <<>> ELSE Head(parts) \o Flatten(Tail(parts))

TarViews ==
    {Flatten(segments) \o ending : segments \in SeqsUpTo(Segments, MaxHeaders), ending \in Endings}

\* parseTar(buffer) is entered: offset = 0, no entries
TarInit ==
    /\ tPc = "loop"
    /\ tView \in TarViews
    /\ tOffset = 0
    /\ tEntries = <<>>

\* the header block at the cursor
HeaderAt(view, offset) == Slice(view, offset, offset + BLOCK_SIZE)

\* decodeOctal of the size field of a header
SizeOf(header) ==
    decodeOctal(Slice(header, TAR_HEADER.size.offset,
                      TAR_HEADER.size.offset + TAR_HEADER.size.size))

\* an iteration that pushes and skips content for files only
ParseTarHeaderFilesOnly ==
    /\ tPc = "loop"
    /\ tOffset + BLOCK_SIZE <= Len(tView)
    /\ HeaderAt(tView, tOffset) # Zeros(BLOCK_SIZE)
    /\ \E header \in {HeaderAt(tView, tOffset)} :
       \E size \in {SizeOf(header)}, typeflag \in {header[TAR_HEADER.typeflag.offset + 1]} :
          LET isFile == typeflag = 48 \/ typeflag = 0
              dataAt == tOffset + BLOCK_SIZE
          IN IF size > 0 /\ isFile
             THEN /\ tEntries' = Append(tEntries,
                                        TarEntry(<<"f">>, size,
                                                 Slice(tView, dataAt, dataAt + size), isFile))
                  /\ tOffset' = dataAt + Blocks(size) * BLOCK_SIZE
             ELSE /\ tEntries' = tEntries
                  /\ tOffset' = dataAt
    /\ UNCHANGED <<tPc, tView, notTar>>

\* one iteration of the while loop over a header that is not all zero; the
\* constants of the iteration are bound one after the other, as in the code
ParseTarHeader ==
    /\ tPc = "loop"
    /\ tOffset + BLOCK_SIZE <= Len(tView)
    /\ HeaderAt(tView, tOffset) # Zeros(BLOCK_SIZE)
    /\ \E header \in {HeaderAt(tView, tOffset)} :
       \E nameBytes \in {Slice(header, TAR_HEADER.name.offset,
                                TAR_HEADER.name.offset + TAR_HEADER.name.size)},
          prefixBytes \in {Slice(header, TAR_HEADER.prefix.offset,
                                  TAR_HEADER.prefix.offset + TAR_HEADER.prefix.size)},
          sizeBytes \in {Slice(header, TAR_HEADER.size.offset,
                                TAR_HEADER.size.offset + TAR_HEADER.size.size)},
          typeflag \in {header[TAR_HEADER.typeflag.offset + 1]} :
       \E decoded \in {decodeString(nameBytes)}, prefix \in {decodeString(prefixBytes)},
          size \in {decodeOctal(sizeBytes)} :
          LET name == IF prefix # <<>> THEN prefix \o <<"/">> \o decoded ELSE decoded
              isFile == typeflag = 48 \/ typeflag = 0
              dataAt == tOffset + BLOCK_SIZE
          IN IF size > 0
             THEN /\ tEntries' = Append(tEntries,
                                        TarEntry(name, size,
                                                 Slice(tView, dataAt, dataAt + size), isFile))
                  /\ tOffset' = dataAt + Blocks(size) * BLOCK_SIZE
             ELSE /\ tEntries' = IF isFile
                                 THEN Append(tEntries, TarEntry(name, 0, <<>>, isFile))
                                 ELSE tEntries
                  /\ tOffset' = dataAt
    /\ UNCHANGED <<tPc, tView, notTar>>

\* the header at the cursor is all zero: break
ParseTarBreak ==
    /\ tPc = "loop"
    /\ tOffset + BLOCK_SIZE <= Len(tView)
    /\ HeaderAt(tView, tOffset) = Zeros(BLOCK_SIZE)
    /\ tPc' = "done"
    /\ UNCHANGED <<tView, tOffset, tEntries, notTar>>

\* fewer than 512 bytes are left: the loop condition fails
ParseTarExhausted ==
    /\ tPc = "loop"
    /\ tOffset + BLOCK_SIZE > Len(tView)
    /\ tPc' = "done"
    /\ UNCHANGED <<tView, tOffset, tEntries, notTar>>

TarNext == ParseTarHeader \/ ParseTarBreak \/ ParseTarExhausted

SpecTarInit ==
    TarInit /\ CodecIdle /\ StreamIdle /\ BlobIdle /\ RecInit /\ ArcIdle /\ ParseIdle /\ LoadIdle
        /\ RegIdle /\ PairIdle

\* the loop is synchronous code: it runs on while it can
SpecTar == SpecTarInit /\ [][TarNext]_vars /\ WF_vars(TarNext)

----------------------------------------------------------------------------
(* Claims about the read cursor of parseTar *)

\* the bytes a header of the given size makes the cursor advance
AdvanceFor(size) ==
    IF size > 0 THEN BLOCK_SIZE + ((size + BLOCK_SIZE - 1) \div BLOCK_SIZE) * BLOCK_SIZE
    ELSE BLOCK_SIZE

\* C28: while a TAR input is parsed the read cursor starts at 0, is always a
\* multiple of 512 and grows with every header processed: by 512 for an
\* entry of size 0 and by 512 + ceil(size / 512) * 512 for size > 0,
\* whatever the type flag and whatever the size field decodes to; the parse
\* ends on every input, at the first all-zero header block or when fewer
\* than 512 bytes remain, with the entries parseTar returns.
C28_CursorAdvancesAndParseEnds ==
    /\ tPc = "loop" => tOffset = 0
    /\ [](tPc # "none" => tOffset % BLOCK_SIZE = 0)
    /\ [][(tPc = "loop" /\ tPc' = "loop") =>
            /\ tOffset' > tOffset
            /\ tOffset' = tOffset + AdvanceFor(SizeOf(HeaderAt(tView, tOffset)))]_vars
    /\ [](tPc = "done" =>
            /\ \/ tOffset + BLOCK_SIZE > Len(tView)
               \/ HeaderAt(tView, tOffset) = Zeros(BLOCK_SIZE)
            /\ tEntries = parseTar(tView))
    /\ <>(tPc = "done")

\* a directory header declaring 513 bytes, then a header with a size that
\* is not a number, have been processed: the cursor is past both and the
\* block of spaces between them
C28_Witness ==
    /\ tPc = "done"
    /\ tView = Segment(<<"1", "0", "0", "1">>, 53, 1) \o Segment(<<"x">>, 48, 1)
    /\ tOffset = 4 * BLOCK_SIZE
    /\ Len(tEntries) = 1

----------------------------------------------------------------------------
(* The extension registry: a Map of the module, changed by                 *)
(* registerExtension, unregisterExtension, registerCommonExtensions and    *)
(* clearExtensions, next to a loaded recording that is validated.          *)

ExtensionDefinition(name, version, description) ==
    [name |-> name, version |-> version, description |-> description]

ANTENNA_EXTENSION == ExtensionDefinition("antenna", "1.0.0", "Describes antenna properties")

CAPTURE_DETAILS_EXTENSION ==
    ExtensionDefinition("capture_details", "1.0.0", "Additional capture metadata")

\* the definitions an application registers: the two common ones, an
\* antenna definition of its own and another namespace
ExtensionDefinitions ==
    {ANTENNA_EXTENSION, CAPTURE_DETAILS_EXTENSION,
     ExtensionDefinition("antenna", "2.0.0", "Antenna parameters"),
     ExtensionDefinition("test", "1.0.0", "Test extension")}

ExtensionNames == {definition.name : definition \in ExtensionDefinitions} \cup {"missing"}

\* Map.prototype.delete
DeleteField(fields, key) == SelectSeq(fields, LAMBDA field : field[1] # key)

\* registerExtension(definition)
RegisterExtension ==
    /\ \E definition \in ExtensionDefinitions :
          extensionRegistry' = SetField(extensionRegistry, definition.name, definition)
    /\ UNCHANGED notReg

\* unregisterExtension(name)
UnregisterExtension ==
    /\ \E name \in ExtensionNames : extensionRegistry' = DeleteField(extensionRegistry, name)
    /\ UNCHANGED notReg

\* registerCommonExtensions()
RegisterCommonExtensions ==
    /\ extensionRegistry' =
          SetField(SetField(extensionRegistry, ANTENNA_EXTENSION.name, ANTENNA_EXTENSION),
                   CAPTURE_DETAILS_EXTENSION.name, CAPTURE_DETAILS_EXTENSION)
    /\ UNCHANGED notReg

\* clearExtensions()
ClearExtensions ==
    /\ extensionRegistry' = <<>>
    /\ UNCHANGED notReg

SpecRegistryInit ==
    LoadedInit /\ CodecIdle /\ StreamIdle /\ BlobIdle /\ ArcIdle /\ ParseIdle /\ LoadIdle
        /\ OthersIdle

SpecRegistryNext ==
    \/ RegisterExtension
    \/ UnregisterExtension
    \/ RegisterCommonExtensions
    \/ ClearExtensions
    \/ Validate

SpecRegistry == SpecRegistryInit /\ [][SpecRegistryNext]_vars

----------------------------------------------------------------------------
(* Claims about the registry and validate() *)

\* C25: the result of validate() (valid and the whole error list) does not
\* depend on the extension registry: for the same recording, validate()
\* called again after any registerExtension, unregisterExtension,
\* registerCommonExtensions and clearExtensions calls returns what it
\* returned before; validate() leaves the registry as it is, and the
\* registry calls leave the recording and the last result as they are.
C25_ValidateIgnoresRegistry ==
    [][/\ (rResult.called /\ rResult'.called) => rResult' = rResult
       /\ rCalls' # rCalls => (rResult'.called /\ extensionRegistry' = extensionRegistry)
       /\ extensionRegistry' # extensionRegistry => UNCHANGED recVars]_vars

\* validate() has found errors three times, the last time with the common
\* extensions and a test extension registered
C25_Witness ==
    /\ rCalls = MaxCalls
    /\ rResult.called
    /\ ~rResult.valid
    /\ Len(extensionRegistry) = 3
    /\ extensionRegistry[1][2] = ANTENNA_EXTENSION

----------------------------------------------------------------------------
(* The writeSamplesComplex scenario: a token of the grammar (or one        *)
(* outside it) and a list of {i, q} samples are given, then written.       *)

\* most {i, q} samples given to one call
MaxPairs == 2

ComplexSample(i, q) == [i |-> i, q |-> q]

\* the number whose IEEE-754 pattern of the given width has these leading
\* bytes, the others 0: 1 is 3F80.. / 3FF0.., 0.5 is 3F00.. / 3FE0..
FloatOf(width, leading) ==
    [float |-> width,
     bits |-> [k \in 1..(width \div 8) |-> IF k <= Len(leading) THEN leading[k] ELSE 0]]

\* {i, q} samples with i # q and with i = q; integers for an integer token
\* (1, -1, and 256, which an 8-bit component wraps to 0), 1, 0.5 and 0 for
\* a float token
ComplexSamples(tok) ==
    IF tok.ty \in {"f32", "f64"}
    THEN LET width == IF tok.ty = "f32" THEN 32 ELSE 64
             one == FloatOf(width, IF width = 32 THEN <<63, 128>> ELSE <<63, 240>>)
             half == FloatOf(width, IF width = 32 THEN <<63>> ELSE <<63, 224>>)
             zero == FloatOf(width, <<>>)
         IN {ComplexSample(one, zero), ComplexSample(half, half), ComplexSample(zero, one)}
    ELSE {ComplexSample(Num(0, 1), Num(-1, 65535)), ComplexSample(Num(0, 256), Num(0, 256)),
          ComplexSample(Num(-1, 65535), Num(0, 1))}

\* every token of the grammar, and one that parseDatatype rejects
PairTokens ==
    {Token(cr, ty, en) : cr \in {"c", "r"},
                         ty \in {"f32", "f64", "i32", "i16", "u32", "u16", "i8", "u8"},
                         en \in {"", "_le", "_be"}}
        \cup {Token("c", "x32", "_le")}

PairInit ==
    /\ wPc = "given"
    /\ wTok \in PairTokens
    /\ wPairs \in SeqsUpTo(ComplexSamples(wTok), MaxPairs)
    /\ wWritten = NoWritten

\* writeSamplesComplex(samples, datatype)
WriteSamplesComplexCall ==
    /\ wPc = "given"
    /\ wWritten' = writeSamplesComplex(wPairs, wTok)
    /\ wPc' = "written"
    /\ UNCHANGED <<wTok, wPairs, notPair>>

SpecPairsInit ==
    PairInit /\ CodecIdle /\ StreamIdle /\ BlobIdle /\ RecInit /\ ArcIdle /\ ParseIdle /\ LoadIdle
        /\ RegIdle /\ TarIdle

SpecPairs == SpecPairsInit /\ [][WriteSamplesComplexCall]_vars

----------------------------------------------------------------------------
(* Claims about writeSamplesComplex *)

RECURSIVE Interleaved(_)
\* [i0, q0, i1, q1, ...]
Interleaved(pairs) ==
    IF pairs = <<>> THEN <<>> ELSE <<Head(pairs).i, Head(pairs).q>> \o Interleaved(Tail(pairs))

\* C26: writeSamplesComplex(pairs, t) fails with the not-a-complex-datatype
\* error for every real token t and produces no bytes; for every complex
\* token it returns exactly the bytes writeSamples returns for the
\* interleaved array [i0, q0, i1, q1, ...], pairs.length x bytesPerSample
\* of them.
C26_ComplexWriterMatchesInterleaved ==
    (wPc = "written" /\ ~parseDatatype(wTok).threw) =>
        IF wTok.cr = "r"
        THEN /\ wWritten.threw
             /\ wWritten.error = "writeSamplesComplex requires a complex datatype"
             /\ wWritten.bytes = <<>>
        ELSE /\ ~wWritten.threw
             /\ ~writeSamples(Interleaved(wPairs), wTok).threw
             /\ wWritten.bytes = writeSamples(Interleaved(wPairs), wTok).bytes
             /\ Len(wWritten.bytes) = Len(wPairs) * BytesPerSampleOf(wTok)

\* {i: 1, q: -1} and {i: -1, q: 1} were written as ci16_le: eight bytes,
\* each component low byte first
C26_Witness ==
    /\ wPc = "written"
    /\ wTok = Token("c", "i16", "_le")
    /\ wPairs = <<ComplexSample(Num(0, 1), Num(-1, 65535)),
                  ComplexSample(Num(-1, 65535), Num(0, 1))>>
    /\ wWritten.bytes = <<1, 0, 255, 255, 255, 255, 1, 0>>

\* a real token was given: the call threw and gave no bytes
C26_WitnessReal ==
    /\ wPc = "written"
    /\ wTok = Token("r", "f32", "_le")
    /\ Len(wPairs) = 1
    /\ wWritten.threw

----------------------------------------------------------------------------
(* Claims about what one addCapture / addAnnotation call changes *)

\* the entries (references) of a list of the recording
ItemsOf(h, list) == h[list.n.lo].items

RemoveAt(s, k) == SubSeq(s, 1, k - 1) \o SubSeq(s, k + 1, Len(s))

\* new is old with one entry more: a new object, put in after the entries
\* with the same sample_start, the old entries all there in their order
OneAdded(old, new, h, allocated) ==
    /\ Len(new) = Len(old) + 1
    /\ \E k \in 1..Len(new) :
          /\ RemoveAt(new, k) = old
          /\ new[k].n.lo > allocated
          /\ \A j \in 1..Len(new) :
                (j # k /\ Get(h, new[j], core("sample_start"))
                             = Get(h, new[k], core("sample_start")))
                => j < k

\* every object and list there was before the call is as it was, but for
\* the list added to
OthersKept(list) ==
    /\ rGlobal' = rGlobal /\ rCaptures' = rCaptures /\ rAnnotations' = rAnnotations
    /\ \A address \in 1..Len(heap) : address # list.n.lo => heap'[address] = heap[address]

\* C29: each addCapture (addAnnotation) call makes captures (annotations)
\* one entry longer, also when an entry with the same sample_start is there
\* (nothing is deduplicated), keeps every entry that was there and their
\* order, puts the new entry after the entries with an equal sample_start,
\* and leaves global and the other list unchanged.
C29_AddChangesOneList ==
    [][(rPc = "live" /\ rCalls' = rCalls + 1) =>
          \/ /\ OneAdded(ItemsOf(heap, rCaptures), ItemsOf(heap', rCaptures), heap', Len(heap))
             /\ OthersKept(rCaptures)
          \/ /\ OneAdded(ItemsOf(heap, rAnnotations), ItemsOf(heap', rAnnotations), heap',
                         Len(heap))
             /\ OthersKept(rAnnotations)]_vars

\* three captures at sample_start 500: the one with a frequency was added
\* second and stands between the two others
C29_Witness ==
    /\ rPc = "live"
    /\ SampleStartsOf(heap, rCaptures) = <<Integer(500), Integer(500), Integer(500)>>
    /\ LET items == ItemsOf(heap, rCaptures)
       IN /\ items[1].n.lo < items[2].n.lo /\ items[2].n.lo < items[3].n.lo
          /\ Get(heap, items[1], core("frequency")) = Undefined
          /\ Get(heap, items[2], core("frequency")) = Integer(100)
          /\ Get(heap, items[3], core("frequency")) = Undefined

----------------------------------------------------------------------------
(* Claims about the size of the chunks of streamSamples *)

\* C23: streamSamples(source, t, k) processes k samples at a time: every
\* chunk yielded holds exactly k samples, except the final one, which may
\* hold fewer; no chunk holds more than k samples, however the source bytes
\* are split into reads.
C23_ChunksHoldChunkSamples ==
    \A i \in 1..Len(sChunks) :
        /\ sChunks[i].sampleCount <= sChunkSamples
        /\ i < Len(sChunks) => sChunks[i].sampleCount = sChunkSamples

----------------------------------------------------------------------------
(* Claims about the progress callback of readSamplesFromBlob *)

\* C27: every invocation of the progress callback of readSamplesFromBlob
\* passes a cumulative bytesRead with 0 <= bytesRead <= totalBytes, bytesRead
\* never decreases from one invocation to the next, and when the call has
\* returned the last invocation has bytesRead = totalBytes, on the direct
\* path and on the streaming path.
C27_ProgressIsCumulative ==
    /\ \A i \in 1..Len(bProgress) :
           /\ 0 <= bProgress[i][1]
           /\ bProgress[i][1] <= bProgress[i][2]
    /\ \A i \in 1..(Len(bProgress) - 1) : bProgress[i][1] <= bProgress[i + 1][1]
    /\ (bPc = "returned" /\ bProgress # <<>>)
           => bProgress[Len(bProgress)][1] = bProgress[Len(bProgress)][2]

====
